---- MODULE Spec2Model ----
(***************************************************************************)
(* Lifecycle of the kit servers: the HTTP server of src/http/http.go       *)
(* (context variant, lines 1-152) with its health handler, and the gRPC    *)
(* server of src/grpc/health.go (lines 105-243).                           *)
(*                                                                         *)
(* One behaviour follows one server object from construction.  `variant`   *)
(* records which package's New built it.  The transport libraries          *)
(* (net/http, google.golang.org/grpc v1.20, os/signal, context) are        *)
(* modelled by what their documented calls do at the call sites.           *)
(*                                                                         *)
(* Beside the lifecycle (Spec, FairSpec) the module has a specification    *)
(* for each function that stands alone: New and its options (ConfSpec),    *)
(* CtxWithSignal (CtxSpec), HealthRequest (HealthSpec), ReadInConfig for   *)
(* one configuration key (ConfigSpec), RequestIDHandler (RidSpec),         *)
(* FilterChain (FcSpec) and the Migrator's methods (MigSpec).              *)
(***************************************************************************)
EXTENDS Naturals, Sequences, FiniteSets, TLC

\* ---------------------------------------------------------------- bounds
\* In-flight connections the transport may hold at once.
MaxConns == 1
\* Values WithStopTimeout may give stopTimeout, in clock ticks (1..MaxStopTimeout).
MaxStopTimeout == 2
\* Calls of Stop made by a task other than Start, per behaviour.
MaxStops == 2

\* Options passed to one call of New.
MaxOpts == 3
\* Signals the process receives of each kind (configured, other), per behaviour.
MaxSignals == 2
\* Service names passed to one call of HealthRequest.
MaxSvc == 2

\* ------------------------------------------------------------- constants
\* errC := make(chan error, 1)
ErrCCap == 1
\* stopTimeout: time.Second * 10
DefaultStopTimeout == 10
\* stop := make(chan os.Signal, 1)
StopCCap == 1
\* HealthRequest: errC := make(chan error, 1)
HrErrCCap == 1
\* http.StatusOK, http.StatusServiceUnavailable
StatusOK == 200
StatusServiceUnavailable == 503

Variants == {"http", "grpc"}
\* The tasks that may run Stop: Start's own call (http.go:122) and an outside caller.
StopCallers == {"start", "ext"}

VARIABLES
  variant,        \* which New constructed the server
  addrFree,       \* environment: net.Listen on the address succeeds
  stopTimeout,    \* Server.stopTimeout in ticks
  \* ---- HTTP server (src/http/http.go)
  Running,        \* Server.Running
  inShutdown,     \* http.Server.inShutdown
  hListener,      \* "none" | "open" | "closed"
  hTracked,       \* the listener is registered in http.Server.listeners
  hConns,         \* connections being served (not idle)
  errC,           \* buffered values of Start's errC
  errCClosed,     \* close(errC) has run
  ctxDone,        \* the caller's context is cancelled
  hStartPc,       \* "idle" | "select" | "stop" | "done"
  hStartResult,   \* the error Start returned ("none" before it returns)
  hStartVia,      \* select branch Start took: "none" | "errC" | "ctx"
  hServePc,       \* "none" | "spawned" | "listen" | "bound" | "serving" | "returned" | "close" | "done"
  hServeErr,      \* what ListenAndServe returned
  hStopPc,        \* per caller: "idle" | "call" | "wait" | "ret" | "done"
  hElapsed,       \* per caller: ticks since its Shutdown context was created
  hShutdownRes,   \* per caller: what Srv.Shutdown returned
  hStopResult,    \* per caller: what Stop returned
  hExtStops,      \* completed outside calls of Stop
  hFailWaiting,   \* ListenAndServe failed with a runtime error while Start was blocked in select
  hExtAfterCancel, \* the outside Stop call in progress (or last) began after Start returned via ctx
  \* ---- gRPC server (src/grpc/health.go)
  gMutex,         \* Server.running: "free" | "Start" | "Stop" (its holder)
  gStartPc,       \* "idle" | "lock" | "listen" | "register" | "spawn" | "notify" | "block" | "select" | "done"
  gStartResult,   \* the error Start returned ("none" before it returns)
  gStartVia,      \* how Start returned: "none" | "bind" | "errC" | "sig"
  gListener,      \* "none" | "open" | "closed"
  gSrv,           \* grpc.Server: "new" | "stopping" | "stopped"
  gConns,         \* connections with work in flight
  gHealth,        \* health server: service name -> "unset" | "SERVING"
  gHealthReg,     \* RegisterHealthServer has run
  gServePc,       \* "none" | "spawned" | "serving" | "exited" | "send" | "done"
  gServeErr,      \* what srv.Serve returned
  gNotified,      \* signal.Notify(s.sigC, ...) has run
  gSigLost,       \* a notified signal found no receiver on sigC and was dropped
  gStopPc,        \* "idle" | "lock" | "graceful" | "wait" | "ret" | "done"
  gStopResult,    \* what the last Stop returned
  gStops,         \* completed calls of Stop
  gStopElapsed,   \* ticks since the Stop call in progress began
  gStopWhileServing, \* the Stop call in progress (or last) began while Start was blocked in its select
  gStopAfterSignal,  \* ... began after Start had returned on a signal
  gFailWaiting,   \* Serve failed with a runtime error while Start was blocked in select
  \* ---- HTTP health handler (src/unnamed/part_014), one request at a time
  hReqPc,         \* "idle" | "header" | "written"
  hRespServing,   \* "serving" in the marshalled body
  hRespStatus,    \* status code written (0 before WriteHeader)
  hRespApp,       \* "app" in the marshalled body
  hRespVersion,   \* "version" in the marshalled body
  \* ---- New and its options (src/http/http.go:36-96, src/grpc/health.go:122-146, 228-243)
  newPc,          \* "opts" | "handler" | "mux" | "done" | "panic"
  opts,           \* the options New has still to apply, in call order
  given,          \* the options New was called with
  Addr,           \* Srv.Addr (http), addr (grpc)
  log,            \* the logger
  handler,        \* Server.handler
  healthOpt,      \* Server.healthOpt
  SrvHandler,     \* Srv.Handler
  gSrvOpt,        \* grpc Server.srv: the instance New made or one given by WithServer
  reqPath,        \* path of the last request served
  answeredBy,     \* the handler that answered it
  \* ---- CtxWithSignal (src/http/http.go:137-152)
  cwsPc,          \* "idle" | "recv" | "cancel" | "unsub" | "done"
  cwsArg,         \* the signals the caller passes
  cwsSig,         \* sig after defaulting
  cwsNotified,    \* signal.Notify(stop, sig...) is in force
  stopC,          \* buffered values of the channel stop
  cwsCtxDone,     \* the returned context is done
  cwsParentDone,  \* the context passed in is done
  cwsIn,          \* signals of the configured set delivered so far
  cwsOut,         \* other signals delivered so far
  \* ---- HealthRequest (src/grpc/health.go:15-55)
  hrPc,           \* "idle" | "wait" | "recv" | "done"
  hrSvc,          \* the service names passed, in order
  hrDialOK,       \* NewClient succeeds
  hrServer,       \* per name, what the health server's Check answers
  hrTask,         \* per index of hrSvc, the goroutine: "none" | "check" | "send" | "done"
  hrErrC,         \* buffered values of errC
  hrErrCClosed,   \* close(errC) has run
  hrResult,       \* "none" | "nil" | "err"
  \* ---- ReadInConfig (src/config/config.go:187-206), one configuration key
  kPc,            \* "idle" | "bindEnvs" | "read" | "unmarshal" | "done"
  kField,         \* the struct field of the key (its default before the call)
  kDefault,       \* the value the field had when ReadInConfig was called
  kFile,          \* the key in the config file: [set, val], or unreadable file
  kEnv,           \* the key's environment variable: [set, val]
  kFlag,          \* the flag passed to BindFlag: [bound, changed, val]
  vPflags,        \* viper: the key has a bound flag
  vEnv,           \* viper: the key has a bound environment variable
  vConfig,        \* viper: the key as read from the config file: [set, val]
  kErr,           \* what ReadInConfig returned: "none" | "nil" | "err"
  \* ---- RequestIDHandler (src/unnamed/part_015:64-115)
  ridPc,          \* "idle" | "lookup" | "generate" | "log" | "header" | "next" | "served"
  fieldKey,       \* the log field name the middleware was built with
  headerName,     \* the header name the middleware was built with
  rCtx,           \* the id in the incoming request's context: [ok, id]
  rHeader,        \* the incoming request's value of a header named headerName
  ridId,          \* the handler's local id
  ridOk,          \* the handler's local ok
  ridCtx,         \* the id in the context of the request handed on: [ok, id]
  ridLog,         \* the request logger's field fieldKey: [ok, id]
  wHeader,        \* the response's header headerName
  xidCount,       \* ids xid.New has generated
  ridSeen,        \* the ids earlier requests were handed on with
  ridReqs,        \* requests received so far
  \* ---- FilterChain (src/tracing/otel/interceptors.go:8-20)
  fcPc,           \* "idle" | "loop" | "done"
  filters,        \* per filter of the chain, what it answers for the request
  fcI,            \* the loop's position in filters
  fcCalled,       \* the filters called so far, in call order
  fcResult,       \* what the chain returned
  \* ---- Migrator (src/psql/migrator.go:37-94)
  mPc,            \* "idle" | "body" | "deferred"
  mOp,            \* the method running or last run: "Up" | "Down" | "Force" | "Version"
  mArg,           \* its argument (steps of Up, v of Force)
  dbClosed,       \* m.Db has been closed
  dbCloses,       \* calls of m.Db.Close so far
  mErr,           \* the error of the method's return statement: "none" | "nil" | "err"
  mCalls,         \* methods called so far
  mEntryClosed    \* m.Db was closed when the running method was entered

hvars == <<Running, inShutdown, hListener, hTracked, hConns, errC, errCClosed,
           ctxDone, hStartPc, hStartResult, hStartVia, hServePc, hServeErr,
           hStopPc, hElapsed, hShutdownRes, hStopResult, hExtStops,
           hExtAfterCancel, hFailWaiting>>

envvars == <<variant, addrFree, stopTimeout>>

gvars == <<gMutex, gStartPc, gStartResult, gStartVia, gListener, gSrv, gConns,
           gHealth, gHealthReg, gServePc, gServeErr, gNotified, gSigLost,
           gStopPc, gStopResult, gStops, gStopElapsed, gStopWhileServing,
           gStopAfterSignal, gFailWaiting>>

\* the health handler's request
qvars == <<hReqPc, hRespServing, hRespStatus, hRespApp, hRespVersion>>

\* what New computes
cvars == <<newPc, opts, given, Addr, log, handler, healthOpt, SrvHandler, gSrvOpt,
           reqPath, answeredBy>>

\* CtxWithSignal
svars == <<cwsPc, cwsArg, cwsSig, cwsNotified, stopC, cwsCtxDone, cwsParentDone,
           cwsIn, cwsOut>>

\* HealthRequest
rvars == <<hrPc, hrSvc, hrDialOK, hrServer, hrTask, hrErrC, hrErrCClosed, hrResult>>

\* ReadInConfig
kvars == <<kPc, kField, kDefault, kFile, kEnv, kFlag, vPflags, vEnv, vConfig, kErr>>

\* RequestIDHandler
ivars == <<ridPc, fieldKey, headerName, rCtx, rHeader, ridId, ridOk, ridCtx, ridLog,
           wHeader, xidCount, ridSeen, ridReqs>>

\* FilterChain
fvars == <<fcPc, filters, fcI, fcCalled, fcResult>>

\* Migrator
mvars == <<mPc, mOp, mArg, dbClosed, dbCloses, mErr, mCalls, mEntryClosed>>

\* the functions that stand apart from the servers
uvars == <<ivars, fvars, mvars>>

auxvars == <<qvars, cvars, svars, rvars, kvars, uvars>>

vars == <<envvars, hvars, gvars, auxvars>>

\* ------------------------------------------------- configuration values
\* URL paths and ServeMux patterns are the sequences of their segments after
\* the leading "/": "/" is <<"">>, "/healthz" is <<"healthz">>, "/healthz/" is
\* <<"healthz", "">>; the empty string is <<>>.
Root == <<"">>
HealthPaths == {<<>>, Root, <<"healthz">>, <<"healthz", "">>}
RequestPaths == {Root, <<"healthz">>, <<"healthz", "">>, <<"healthz", "x">>, <<"x">>}

\* type HealthOptions struct { Path, AppName, Version string }
HealthOptions(path, app, version) ==
  [Path |-> path, AppName |-> app, Version |-> version]

\* the zero HealthOptions
ZeroHealth == HealthOptions(<<>>, "", "")

\* HealthOptions{AppName: "kit"}
KitHealth == HealthOptions(<<>>, "kit", "")

\* An Option is the field it assigns and the value (s: string or handler or
\* server or logger, d: duration, h: HealthOptions).
WithAddr(addr) == [name |-> "WithAddr", s |-> addr, d |-> 0, h |-> ZeroHealth]
WithLogger(l) == [name |-> "WithLogger", s |-> l, d |-> 0, h |-> ZeroHealth]
WithHandler(hd) == [name |-> "WithHandler", s |-> hd, d |-> 0, h |-> ZeroHealth]
WithHealth(ho) == [name |-> "WithHealth", s |-> "", d |-> 0, h |-> ho]
WithStopTimeout(dur) == [name |-> "WithStopTimeout", s |-> "", d |-> dur, h |-> ZeroHealth]
WithAddress(addr) == [name |-> "WithAddress", s |-> addr, d |-> 0, h |-> ZeroHealth]
WithServer(srv) == [name |-> "WithServer", s |-> srv, d |-> 0, h |-> ZeroHealth]

\* The options a caller may pass to http.New and to grpc.New.
HttpOptions ==
  {WithAddr(a) : a \in {":80", ":81"}}
    \cup {WithHandler(hd) : hd \in {"h1", "h2"}}
    \cup {WithHealth(HealthOptions(pth, "svc", "v1")) : pth \in HealthPaths}
    \cup {WithStopTimeout(dur) : dur \in 1..MaxStopTimeout}

GrpcOptions ==
  {WithAddress(a) : a \in {":80", ":81"}}
    \cup {WithLogger(l) : l \in {"l1", "l2"}}
    \cup {WithServer(srv) : srv \in {"srv1", "srv2"}}

\* all sequences over S of length at most n
RECURSIVE SeqsUpTo(_, _)
SeqsUpTo(S, n) ==
  IF n = 0 THEN {<<>>}
  ELSE LET shorter == SeqsUpTo(S, n - 1)
       IN shorter \cup {Append(q, x) : q \in shorter, x \in S}

\* Srv.Handler: what New installed (kind "nil" | "health" | "h" | "mux"), the
\* primary handler and the options of the health handler
Handler(kind, hd, ho) == [kind |-> kind, hd |-> hd, opt |-> ho]

\* what answers a request: "none" | "health" | "h" | "redirect"
Answer(by, hd, ho) == [by |-> by, hd |-> hd, opt |-> ho]

\* http.ServeMux with "/" -> hd and pattern -> the health handler: a request
\* gets the exact pattern; else a redirect when only path + "/" is registered;
\* else the longest pattern ending in "/" that is a prefix of the path.
IsDir(pattern) == pattern[Len(pattern)] = ""

HasPrefix(path, pattern) ==
  /\ Len(path) >= Len(pattern)
  /\ SubSeq(path, 1, Len(pattern) - 1) = SubSeq(pattern, 1, Len(pattern) - 1)

ServeHTTP(h, path) ==
  CASE h.kind = "health" -> Answer("health", "", h.opt)
    [] h.kind = "h" -> Answer("h", h.hd, ZeroHealth)
    [] h.kind = "mux" ->
         IF path = h.opt.Path THEN Answer("health", "", h.opt)
         ELSE IF IsDir(h.opt.Path) /\ Append(path, "") = h.opt.Path
           THEN Answer("redirect", "", ZeroHealth)
         ELSE IF IsDir(h.opt.Path) /\ HasPrefix(path, h.opt.Path)
           THEN Answer("health", "", h.opt)
         ELSE Answer("h", h.hd, ZeroHealth)
    [] OTHER -> Answer("none", "", ZeroHealth)

\* The signals the process may receive, and CtxWithSignal's default set.
Signals == {"SIGTERM", "SIGQUIT", "SIGINT", "SIGHUP"}
DefaultSignals == {"SIGTERM", "SIGQUIT", "SIGINT"}

\* Service names a caller of HealthRequest may list, and what the health
\* server's Check does for a name: a status, codes.NotFound for a name it does
\* not know, or a failed call.
SvcNames == {"a", "b"}
CheckAnswers == {"SERVING", "NOT_SERVING", "UNKNOWN", "NotFound", "Unavailable"}

\* a value that may be absent (a key of a config file, an environment variable)
Val(set, val) == [set |-> set, val |-> val]

\* The service names the RegisterServiceFuncs passed to New return.
Services == {"svcA", "svcB"}

\* ------------------------------------------------------------------ Init
\* New: Running false, nothing started; the options fix address and stopTimeout.
HInit ==
  /\ Running = FALSE
  /\ inShutdown = FALSE
  /\ hListener = "none"
  /\ hTracked = FALSE
  /\ hConns = 0
  /\ errC = <<>>
  /\ errCClosed = FALSE
  /\ ctxDone = FALSE
  /\ hStartPc = "idle"
  /\ hStartResult = "none"
  /\ hStartVia = "none"
  /\ hServePc = "none"
  /\ hServeErr = "none"
  /\ hStopPc = [c \in StopCallers |-> "idle"]
  /\ hElapsed = [c \in StopCallers |-> 0]
  /\ hShutdownRes = [c \in StopCallers |-> "none"]
  /\ hStopResult = [c \in StopCallers |-> "none"]
  /\ hExtStops = 0
  /\ hExtAfterCancel = FALSE
  /\ hFailWaiting = FALSE

\* grpc New: a fresh grpc.Server, unbuffered sigC and errC, nothing started.
GInit ==
  /\ gMutex = "free"
  /\ gStartPc = "idle"
  /\ gStartResult = "none"
  /\ gStartVia = "none"
  /\ gListener = "none"
  /\ gSrv = "new"
  /\ gConns = 0
  /\ gHealth = [n \in Services |-> "unset"]
  /\ gHealthReg = FALSE
  /\ gServePc = "none"
  /\ gServeErr = "none"
  /\ gNotified = FALSE
  /\ gSigLost = FALSE
  /\ gStopPc = "idle"
  /\ gStopResult = "none"
  /\ gStops = 0
  /\ gStopElapsed = 0
  /\ gStopWhileServing = FALSE
  /\ gStopAfterSignal = FALSE
  /\ gFailWaiting = FALSE

\* CtxWithSignal has not been called
SIdle ==
  /\ cwsPc = "idle"
  /\ cwsArg = {}
  /\ cwsSig = {}
  /\ cwsNotified = FALSE
  /\ stopC = <<>>
  /\ cwsCtxDone = FALSE
  /\ cwsParentDone = FALSE
  /\ cwsIn = 0
  /\ cwsOut = 0

\* HealthRequest has not been called
RIdle ==
  /\ hrPc = "idle"
  /\ hrSvc = <<>>
  /\ hrDialOK = TRUE
  /\ hrServer = [n \in SvcNames |-> "SERVING"]
  /\ hrTask = <<>>
  /\ hrErrC = <<>>
  /\ hrErrCClosed = FALSE
  /\ hrResult = "none"

\* ReadInConfig has not been called: a fresh viper
VInit ==
  /\ kPc = "idle"
  /\ vPflags = FALSE
  /\ vEnv = FALSE
  /\ vConfig = Val(FALSE, "")
  /\ kErr = "none"

KIdle ==
  /\ VInit
  /\ kDefault = ""
  /\ kField = ""
  /\ kFile = [set |-> FALSE, val |-> "", ok |-> TRUE]
  /\ kEnv = Val(FALSE, "")
  /\ kFlag = [bound |-> FALSE, changed |-> FALSE, val |-> ""]

\* an id: where it comes from and, for a generated one, its number
ID(src, n) == [src |-> src, n |-> n]

\* the empty string as an id
EmptyID == ID("", 0)

\* no RequestIDHandler has been built
IIdle ==
  /\ ridPc = "idle"
  /\ fieldKey = ""
  /\ headerName = ""
  /\ rCtx = Val(FALSE, EmptyID)
  /\ rHeader = EmptyID
  /\ ridId = EmptyID
  /\ ridOk = FALSE
  /\ ridCtx = Val(FALSE, EmptyID)
  /\ ridLog = Val(FALSE, EmptyID)
  /\ wHeader = EmptyID
  /\ xidCount = 0
  /\ ridSeen = {}
  /\ ridReqs = 0

\* no FilterChain has been built
FIdle ==
  /\ fcPc = "idle"
  /\ filters = <<>>
  /\ fcI = 0
  /\ fcCalled = <<>>
  /\ fcResult = FALSE

\* no Migrator has been made
MIdle ==
  /\ mPc = "idle"
  /\ mOp = ""
  /\ mArg = 0
  /\ dbClosed = FALSE
  /\ dbCloses = 0
  /\ mErr = "none"
  /\ mCalls = 0
  /\ mEntryClosed = FALSE

UIdle == IIdle /\ FIdle /\ MIdle

\* the health handler has served nothing
QInit ==
  /\ hReqPc = "idle"
  /\ hRespServing = FALSE
  /\ hRespStatus = 0
  /\ hRespApp = ""
  /\ hRespVersion = ""

\* the fields New starts from (http.go:38-42, health.go:231-238)
NewDefaults ==
  /\ Addr = ":5000"
  /\ log = "stdout"
  /\ handler = "nil"
  /\ healthOpt = ZeroHealth
  /\ gSrvOpt = "NewServer"

\* A server as New returns it: without options the health handler answers
\* every path; with WithHandler and WithHealth a mux serves both.
Constructed ==
  /\ newPc = "done"
  /\ opts = <<>>
  /\ Addr = ":5000"
  /\ log = "stdout"
  /\ gSrvOpt = "NewServer"
  /\ reqPath = <<>>
  /\ answeredBy = Answer("none", "", ZeroHealth)
  /\ \/ /\ given = <<>>
        /\ handler = "nil"
        /\ healthOpt = ZeroHealth
        /\ SrvHandler = Handler("health", "", KitHealth)
     \/ /\ variant = "http"
        /\ given = <<WithHandler("h1"), WithHealth(HealthOptions(<<"healthz">>, "svc", "v1"))>>
        /\ handler = "h1"
        /\ healthOpt = HealthOptions(<<"healthz">>, "svc", "v1")
        /\ SrvHandler = Handler("mux", "h1", healthOpt)

Init ==
  /\ variant \in Variants
  /\ addrFree \in BOOLEAN
  /\ stopTimeout \in 1..MaxStopTimeout
  /\ HInit
  /\ GInit
  /\ QInit
  /\ Constructed
  /\ SIdle
  /\ RIdle
  /\ KIdle
  /\ UIdle

\* ------------------------------------------------------- HTTP: Start
\* Start up to its select: make errC, spawn the serve goroutine.
HStart ==
  /\ variant = "http"
  /\ hStartPc = "idle"
  /\ hStartPc' = "select"
  /\ errC' = <<>>
  /\ errCClosed' = FALSE
  /\ hServePc' = "spawned"
  /\ UNCHANGED <<auxvars, envvars, gvars, Running, inShutdown, hListener, hTracked, hConns,
                 ctxDone, hStartResult, hStartVia, hServeErr, hStopPc,
                 hElapsed, hShutdownRes, hStopResult, hExtStops,
                 hExtAfterCancel, hFailWaiting>>

\* The caller cancels the context (CtxWithSignal's cancel, or any other).
HCancel ==
  /\ variant = "http"
  /\ ~ctxDone
  /\ ctxDone' = TRUE
  /\ UNCHANGED <<auxvars, envvars, gvars, Running, inShutdown, hListener, hTracked, hConns,
                 errC, errCClosed, hStartPc, hStartResult, hStartVia,
                 hServePc, hServeErr, hStopPc, hElapsed, hShutdownRes,
                 hStopResult, hExtStops, hExtAfterCancel, hFailWaiting>>

\* goroutine: log, s.Running = true
HServeSetRunning ==
  /\ hServePc = "spawned"
  /\ Running' = TRUE
  /\ hServePc' = "listen"
  /\ UNCHANGED <<auxvars, envvars, gvars, inShutdown, hListener, hTracked, hConns, errC,
                 errCClosed, ctxDone, hStartPc, hStartResult, hStartVia,
                 hServeErr, hStopPc, hElapsed, hShutdownRes, hStopResult,
                 hExtStops, hExtAfterCancel, hFailWaiting>>

\* goroutine: ListenAndServe's entry (shuttingDown check) and net.Listen
HListen ==
  /\ hServePc = "listen"
  /\ IF inShutdown
       THEN /\ hServeErr' = "ErrServerClosed"
            /\ hServePc' = "returned"
            /\ UNCHANGED <<hListener, hFailWaiting>>
       ELSE IF ~addrFree
         THEN /\ hServeErr' = "ErrBind"
              /\ hFailWaiting' = (hStartPc = "select")
              /\ hServePc' = "returned"
              /\ UNCHANGED hListener
         ELSE /\ hListener' = "open"
              /\ hServePc' = "bound"
              /\ UNCHANGED <<hServeErr, hFailWaiting>>
  /\ UNCHANGED <<auxvars, envvars, gvars, Running, inShutdown, hTracked, hConns, errC,
                 errCClosed, ctxDone, hStartPc, hStartResult, hStartVia,
                 hStopPc, hElapsed, hShutdownRes, hStopResult, hExtStops,
                 hExtAfterCancel>>

\* goroutine: Serve registers the listener, or finds the server shutting down
HServeTrack ==
  /\ hServePc = "bound"
  /\ IF inShutdown
       THEN /\ hListener' = "closed"
            /\ hServeErr' = "ErrServerClosed"
            /\ hServePc' = "returned"
            /\ UNCHANGED hTracked
       ELSE /\ hTracked' = TRUE
            /\ hServePc' = "serving"
            /\ UNCHANGED <<hListener, hServeErr>>
  /\ UNCHANGED <<auxvars, envvars, gvars, Running, inShutdown, hConns, errC, errCClosed,
                 ctxDone, hStartPc, hStartResult, hStartVia, hStopPc,
                 hElapsed, hShutdownRes, hStopResult, hExtStops,
                 hExtAfterCancel, hFailWaiting>>

\* accept loop: a connection is accepted and is being served
HAccept ==
  /\ hServePc = "serving"
  /\ hListener = "open"
  /\ hConns < MaxConns
  /\ hConns' = hConns + 1
  /\ UNCHANGED <<auxvars, envvars, gvars, Running, inShutdown, hListener, hTracked, errC,
                 errCClosed, ctxDone, hStartPc, hStartResult, hStartVia,
                 hServePc, hServeErr, hStopPc, hElapsed, hShutdownRes,
                 hStopResult, hExtStops, hExtAfterCancel, hFailWaiting>>

\* Health handler, first half: marshal the body; Serving is read from s.Running
HHealthMarshal ==
  /\ hConns > 0
  /\ hReqPc = "idle"
  /\ \E path \in RequestPaths : ServeHTTP(SrvHandler, path).by = "health"
  /\ hRespServing' = Running
  /\ hRespApp' = SrvHandler.opt.AppName
  /\ hRespVersion' = SrvHandler.opt.Version
  /\ hRespStatus' = 0
  /\ hReqPc' = "header"
  /\ UNCHANGED <<cvars, svars, rvars, kvars, uvars, envvars, gvars, hvars>>

\* Health handler, second half: s.Running is read again for the status code,
\* then header and body are written
HHealthWriteHeader ==
  /\ hReqPc = "header"
  /\ hRespStatus' = IF Running THEN StatusOK ELSE StatusServiceUnavailable
  /\ hReqPc' = "written"
  /\ UNCHANGED <<cvars, svars, rvars, kvars, uvars, envvars, gvars, hvars, hRespServing, hRespApp, hRespVersion>>

\* a served connection finishes (its handler returns, the client goes away);
\* the connection of the health request finishes after its response is written
HConnFinish ==
  /\ hConns > 0
  /\ hConns' = hConns - 1
  /\ \/ /\ hReqPc = "written"
        /\ hReqPc' = "idle"
        /\ hRespServing' = FALSE
        /\ hRespStatus' = 0
        /\ hRespApp' = ""
        /\ hRespVersion' = ""
     \/ /\ hReqPc = "idle" \/ hConns > 1
        /\ UNCHANGED qvars
  /\ UNCHANGED <<cvars, svars, rvars, kvars, uvars, envvars, gvars, Running, inShutdown, hListener, hTracked, errC,
                 errCClosed, ctxDone, hStartPc, hStartResult, hStartVia,
                 hServePc, hServeErr, hStopPc, hElapsed, hShutdownRes,
                 hStopResult, hExtStops, hExtAfterCancel, hFailWaiting>>

\* accept loop: Accept fails for good while the server is not shutting down
HAcceptError ==
  /\ hServePc = "serving"
  /\ ~inShutdown
  /\ hListener' = "closed"
  /\ hTracked' = FALSE
  /\ hServeErr' = "ErrAccept"
  /\ hServePc' = "returned"
  /\ hFailWaiting' = (hStartPc = "select")
  /\ UNCHANGED <<auxvars, envvars, gvars, Running, inShutdown, hConns, errC, errCClosed,
                 ctxDone, hStartPc, hStartResult, hStartVia, hStopPc,
                 hElapsed, hShutdownRes, hStopResult, hExtStops,
                 hExtAfterCancel>>

\* accept loop: Shutdown closed the listener, Serve returns ErrServerClosed
HServeClosed ==
  /\ hServePc = "serving"
  /\ inShutdown
  /\ hTracked' = FALSE
  /\ hServeErr' = "ErrServerClosed"
  /\ hServePc' = "returned"
  /\ UNCHANGED <<auxvars, envvars, gvars, Running, inShutdown, hListener, hConns, errC,
                 errCClosed, ctxDone, hStartPc, hStartResult, hStartVia,
                 hStopPc, hElapsed, hShutdownRes, hStopResult, hExtStops,
                 hExtAfterCancel, hFailWaiting>>

\* HServeSwitch with the default case missing: a runtime error is not forwarded
HServeSwitchDrop ==
  /\ hServePc = "returned"
  /\ Running' = IF hServeErr = "ErrServerClosed" THEN FALSE ELSE Running
  /\ hServePc' = "close"
  /\ UNCHANGED <<auxvars, envvars, gvars, inShutdown, hListener, hTracked, hConns, errC,
                 errCClosed, ctxDone, hStartPc, hStartResult, hStartVia,
                 hServeErr, hStopPc, hElapsed, hShutdownRes, hStopResult,
                 hExtStops, hExtAfterCancel, hFailWaiting>>

\* HServeSwitch that sends whatever ListenAndServe returned, ErrServerClosed too
HServeSwitchSendAll ==
  /\ hServePc = "returned"
  /\ Len(errC) < ErrCCap
  /\ errC' = Append(errC, hServeErr)
  /\ Running' = IF hServeErr = "ErrServerClosed" THEN FALSE ELSE Running
  /\ hServePc' = "close"
  /\ UNCHANGED <<auxvars, envvars, gvars, inShutdown, hListener, hTracked, hConns, errCClosed,
                 ctxDone, hStartPc, hStartResult, hStartVia, hServeErr,
                 hStopPc, hElapsed, hShutdownRes, hStopResult, hExtStops,
                 hExtAfterCancel, hFailWaiting>>

\* goroutine: switch err { ErrServerClosed: Running = false; default: errC <- err }
HServeSwitch ==
  /\ hServePc = "returned"
  /\ IF hServeErr = "ErrServerClosed"
       THEN /\ Running' = FALSE
            /\ UNCHANGED errC
       ELSE /\ Len(errC) < ErrCCap
            /\ errC' = Append(errC, hServeErr)
            /\ UNCHANGED Running
  /\ hServePc' = "close"
  /\ UNCHANGED <<auxvars, envvars, gvars, inShutdown, hListener, hTracked, hConns, errCClosed,
                 ctxDone, hStartPc, hStartResult, hStartVia, hServeErr,
                 hStopPc, hElapsed, hShutdownRes, hStopResult, hExtStops,
                 hExtAfterCancel, hFailWaiting>>

\* goroutine: close(errC)
HServeCloseErrC ==
  /\ hServePc = "close"
  /\ errCClosed' = TRUE
  /\ hServePc' = "done"
  /\ UNCHANGED <<auxvars, envvars, gvars, Running, inShutdown, hListener, hTracked, hConns,
                 errC, ctxDone, hStartPc, hStartResult, hStartVia, hServeErr,
                 hStopPc, hElapsed, hShutdownRes, hStopResult, hExtStops,
                 hExtAfterCancel, hFailWaiting>>

\* select, case err := <-errC: return err (a closed channel yields nil)
HStartRecvErr ==
  /\ hStartPc = "select"
  /\ errC # <<>> \/ errCClosed
  /\ hStartResult' = IF errC # <<>> THEN Head(errC) ELSE "nil"
  /\ errC' = IF errC # <<>> THEN Tail(errC) ELSE errC
  /\ hStartPc' = "done"
  /\ hStartVia' = "errC"
  /\ UNCHANGED <<auxvars, envvars, gvars, Running, inShutdown, hListener, hTracked, hConns,
                 errCClosed, ctxDone, hServePc, hServeErr, hStopPc, hElapsed,
                 hShutdownRes, hStopResult, hExtStops, hExtAfterCancel, hFailWaiting>>

\* select, case <-ctx.Done(): return s.Stop()  (the call of Stop)
HStartCtxDone ==
  /\ hStartPc = "select"
  /\ ctxDone
  /\ hStartPc' = "stop"
  /\ hStartVia' = "ctx"
  /\ hStopPc' = [hStopPc EXCEPT !["start"] = "call"]
  /\ UNCHANGED <<auxvars, envvars, gvars, Running, inShutdown, hListener, hTracked, hConns,
                 errC, errCClosed, ctxDone, hStartResult, hServePc, hServeErr,
                 hElapsed, hShutdownRes, hStopResult, hExtStops,
                 hExtAfterCancel, hFailWaiting>>

\* ------------------------------------------------------- HTTP: Stop
\* another task calls Stop
HStopCallExt ==
  /\ variant = "http"
  /\ hStopPc["ext"] \in {"idle", "done"}
  /\ hExtStops < MaxStops
  /\ hStopPc' = [hStopPc EXCEPT !["ext"] = "call"]
  /\ hExtAfterCancel' = (hStartPc = "done" /\ hStartVia = "ctx")
  /\ UNCHANGED <<auxvars, envvars, gvars, Running, inShutdown, hListener, hTracked, hConns,
                 errC, errCClosed, ctxDone, hStartPc, hStartResult, hStartVia,
                 hServePc, hServeErr, hElapsed, hShutdownRes, hStopResult,
                 hExtStops, hFailWaiting>>

\* HShutdownBegin that leaves the transport alone: Stop waits out its timeout
\* without calling Shutdown on the server that is serving
HShutdownBeginNoClose(c) ==
  /\ hStopPc[c] = "call"
  /\ hElapsed' = [hElapsed EXCEPT ![c] = 0]
  /\ hStopPc' = [hStopPc EXCEPT ![c] = "wait"]
  /\ UNCHANGED <<auxvars, envvars, gvars, Running, inShutdown, hListener, hTracked, hConns,
                 errC, errCClosed, ctxDone, hStartPc, hStartResult, hStartVia,
                 hServePc, hServeErr, hShutdownRes, hStopResult, hExtStops,
                 hExtAfterCancel, hFailWaiting>>

\* Stop: context.WithTimeout(stopTimeout); Shutdown sets inShutdown and closes
\* the registered listeners
HShutdownBegin(c) ==
  /\ hStopPc[c] = "call"
  /\ inShutdown' = TRUE
  /\ hListener' = IF hTracked /\ hListener = "open" THEN "closed" ELSE hListener
  /\ hElapsed' = [hElapsed EXCEPT ![c] = 0]
  /\ hStopPc' = [hStopPc EXCEPT ![c] = "wait"]
  /\ UNCHANGED <<auxvars, envvars, gvars, Running, hTracked, hConns, errC, errCClosed,
                 ctxDone, hStartPc, hStartResult, hStartVia, hServePc,
                 hServeErr, hShutdownRes, hStopResult, hExtStops,
                 hExtAfterCancel, hFailWaiting>>

\* HShutdownReturn without the timeout: Shutdown(context.Background())
HShutdownReturnNoDeadline(c) ==
  /\ hStopPc[c] = "wait"
  /\ hConns = 0 /\ ~hTracked
  /\ hShutdownRes' = [hShutdownRes EXCEPT ![c] = "nil"]
  /\ hStopPc' = [hStopPc EXCEPT ![c] = "ret"]
  /\ UNCHANGED <<auxvars, envvars, gvars, Running, inShutdown, hListener, hTracked, hConns,
                 errC, errCClosed, ctxDone, hStartPc, hStartResult, hStartVia,
                 hServePc, hServeErr, hElapsed, hStopResult, hExtStops,
                 hExtAfterCancel, hFailWaiting>>

\* HShutdownReturn with a context that is already done: the deadline error
\* comes back before stopTimeout has passed
HShutdownReturnEarly(c) ==
  /\ hStopPc[c] = "wait"
  /\ IF hConns = 0 /\ ~hTracked
       THEN hShutdownRes' = [hShutdownRes EXCEPT ![c] = "nil"]
       ELSE hShutdownRes' = [hShutdownRes EXCEPT ![c] = "ErrDeadline"]
  /\ hStopPc' = [hStopPc EXCEPT ![c] = "ret"]
  /\ UNCHANGED <<auxvars, envvars, gvars, Running, inShutdown, hListener, hTracked, hConns,
                 errC, errCClosed, ctxDone, hStartPc, hStartResult, hStartVia,
                 hServePc, hServeErr, hElapsed, hStopResult, hExtStops,
                 hExtAfterCancel, hFailWaiting>>

\* Shutdown's poll loop: nil once no connection is active and no listener is
\* registered, ctx.Err() once the timeout context is done
HShutdownReturn(c) ==
  /\ hStopPc[c] = "wait"
  /\ IF hConns = 0 /\ ~hTracked
       THEN hShutdownRes' = [hShutdownRes EXCEPT ![c] = "nil"]
       ELSE /\ hElapsed[c] >= stopTimeout
            /\ hShutdownRes' = [hShutdownRes EXCEPT ![c] = "ErrDeadline"]
  /\ hStopPc' = [hStopPc EXCEPT ![c] = "ret"]
  /\ UNCHANGED <<auxvars, envvars, gvars, Running, inShutdown, hListener, hTracked, hConns,
                 errC, errCClosed, ctxDone, hStartPc, hStartResult, hStartVia,
                 hServePc, hServeErr, hElapsed, hStopResult, hExtStops,
                 hExtAfterCancel, hFailWaiting>>

\* HStopReturn with the shutdown error discarded: Start returns nil whatever
\* Shutdown returned (as the signal variant of Start does, http.go:250-252)
HStopReturnSwallow(c) ==
  /\ hStopPc[c] = "ret"
  /\ hStopResult' = [hStopResult EXCEPT ![c] = hShutdownRes[c]]
  /\ hStopPc' = [hStopPc EXCEPT ![c] = "done"]
  /\ IF c = "start"
       THEN /\ hStartPc' = "done"
            /\ hStartResult' = "nil"
            /\ UNCHANGED hExtStops
       ELSE /\ hExtStops' = hExtStops + 1
            /\ UNCHANGED <<hStartPc, hStartResult>>
  /\ UNCHANGED <<auxvars, envvars, gvars, Running, inShutdown, hListener, hTracked, hConns,
                 errC, errCClosed, ctxDone, hStartVia, hServePc, hServeErr,
                 hElapsed, hShutdownRes, hExtAfterCancel, hFailWaiting>>

\* Stop returns what Shutdown returned; Start returns what its Stop returned
HStopReturn(c) ==
  /\ hStopPc[c] = "ret"
  /\ hStopResult' = [hStopResult EXCEPT ![c] = hShutdownRes[c]]
  /\ hStopPc' = [hStopPc EXCEPT ![c] = "done"]
  /\ IF c = "start"
       THEN /\ hStartPc' = "done"
            /\ hStartResult' = hShutdownRes[c]
            /\ UNCHANGED hExtStops
       ELSE /\ hExtStops' = hExtStops + 1
            /\ UNCHANGED <<hStartPc, hStartResult>>
  /\ UNCHANGED <<auxvars, envvars, gvars, Running, inShutdown, hListener, hTracked, hConns,
                 errC, errCClosed, ctxDone, hStartVia, hServePc, hServeErr,
                 hElapsed, hShutdownRes, hExtAfterCancel, hFailWaiting>>

\* The steps the program itself can take (the goroutines are runnable).
HProgramStep ==
  \/ HServeSetRunning \/ HListen \/ HServeTrack \/ HServeClosed
  \/ HServeSwitch \/ HServeCloseErrC
  \/ HStartRecvErr \/ HStartCtxDone
  \/ HHealthWriteHeader
  \/ \E c \in StopCallers :
       HShutdownBegin(c) \/ HShutdownReturn(c) \/ HStopReturn(c)

\* Time passes for every Shutdown that is waiting (the count stops at the
\* deadline).  A tick is long against a step of the program: time passes only
\* while every task is blocked.
HTick ==
  /\ ~ENABLED HProgramStep
  /\ \E c \in StopCallers : hStopPc[c] = "wait" /\ hElapsed[c] < stopTimeout
  /\ hElapsed' = [c \in StopCallers |->
                    IF hStopPc[c] = "wait" /\ hElapsed[c] < stopTimeout
                      THEN hElapsed[c] + 1 ELSE hElapsed[c]]
  /\ UNCHANGED <<auxvars, envvars, gvars, Running, inShutdown, hListener, hTracked, hConns,
                 errC, errCClosed, ctxDone, hStartPc, hStartResult, hStartVia,
                 hServePc, hServeErr, hStopPc, hShutdownRes, hStopResult,
                 hExtStops, hExtAfterCancel, hFailWaiting>>

HNext ==
  \/ HStart
  \/ HCancel
  \/ HServeSetRunning
  \/ HListen
  \/ HServeTrack
  \/ HAccept
  \/ HHealthMarshal
  \/ HHealthWriteHeader
  \/ HConnFinish
  \/ HAcceptError
  \/ HServeClosed
  \/ HServeSwitch
  \/ HServeCloseErrC
  \/ HStartRecvErr
  \/ HStartCtxDone
  \/ HStopCallExt
  \/ \E c \in StopCallers : HShutdownBegin(c)
  \/ \E c \in StopCallers : HShutdownReturn(c)
  \/ \E c \in StopCallers : HStopReturn(c)
  \/ HTick

\* ------------------------------------------------------- gRPC: Start
\* a task calls Start
GStartCall ==
  /\ variant = "grpc"
  /\ gStartPc = "idle"
  /\ gStartPc' = "lock"
  /\ UNCHANGED <<auxvars, envvars, hvars, gMutex, gStartResult, gStartVia, gListener,
                 gSrv, gConns, gHealth, gHealthReg, gServePc, gServeErr,
                 gNotified, gSigLost, gStopPc, gStopResult, gStops,
                 gStopElapsed, gStopWhileServing, gStopAfterSignal, gFailWaiting>>

\* s.running.Lock()
GStartLock ==
  /\ gStartPc = "lock"
  /\ gMutex = "free"
  /\ gMutex' = "Start"
  /\ gStartPc' = "listen"
  /\ UNCHANGED <<auxvars, envvars, hvars, gStartResult, gStartVia, gListener, gSrv,
                 gConns, gHealth, gHealthReg, gServePc, gServeErr, gNotified,
                 gSigLost, gStopPc, gStopResult, gStops, gStopElapsed,
                 gStopWhileServing, gStopAfterSignal, gFailWaiting>>

\* net.Listen; on error return it (the deferred Unlock runs)
GStartListen ==
  /\ gStartPc = "listen"
  /\ IF addrFree
       THEN /\ gListener' = "open"
            /\ gStartPc' = "register"
            /\ UNCHANGED <<gStartResult, gStartVia, gMutex>>
       ELSE /\ gStartResult' = "ErrBind"
            /\ gStartVia' = "bind"
            /\ gStartPc' = "done"
            /\ gMutex' = "free"
            /\ UNCHANGED gListener
  /\ UNCHANGED <<auxvars, envvars, hvars, gSrv, gConns, gHealth, gHealthReg, gServePc,
                 gServeErr, gNotified, gSigLost, gStopPc, gStopResult, gStops,
                 gStopElapsed, gStopWhileServing, gStopAfterSignal, gFailWaiting>>

\* GStartRegister that registers the services without marking them in the
\* health server
GStartRegisterUnmarked ==
  /\ gStartPc = "register"
  /\ gHealthReg' = TRUE
  /\ gStartPc' = "spawn"
  /\ UNCHANGED <<auxvars, envvars, hvars, gMutex, gStartResult, gStartVia, gListener,
                 gSrv, gConns, gHealth, gServePc, gServeErr, gNotified, gSigLost,
                 gStopPc, gStopResult, gStops, gStopElapsed,
                 gStopWhileServing, gStopAfterSignal, gFailWaiting>>

\* register every service, mark it SERVING, register the health server
GStartRegister ==
  /\ gStartPc = "register"
  /\ gHealth' = [n \in Services |-> "SERVING"]
  /\ gHealthReg' = TRUE
  /\ gStartPc' = "spawn"
  /\ UNCHANGED <<auxvars, envvars, hvars, gMutex, gStartResult, gStartVia, gListener,
                 gSrv, gConns, gServePc, gServeErr, gNotified, gSigLost,
                 gStopPc, gStopResult, gStops, gStopElapsed,
                 gStopWhileServing, gStopAfterSignal, gFailWaiting>>

\* go func() { s.errC <- s.srv.Serve(listener) }()
GStartSpawn ==
  /\ gStartPc = "spawn"
  /\ gServePc' = "spawned"
  /\ gStartPc' = "notify"
  /\ UNCHANGED <<auxvars, envvars, hvars, gMutex, gStartResult, gStartVia, gListener,
                 gSrv, gConns, gHealth, gHealthReg, gServeErr, gNotified,
                 gSigLost, gStopPc, gStopResult, gStops, gStopElapsed,
                 gStopWhileServing, gStopAfterSignal, gFailWaiting>>

\* signal.Notify(s.sigC, SIGTERM, SIGQUIT, SIGINT)
GStartNotify ==
  /\ gStartPc = "notify"
  /\ gNotified' = TRUE
  /\ gStartPc' = "block"
  /\ UNCHANGED <<auxvars, envvars, hvars, gMutex, gStartResult, gStartVia, gListener,
                 gSrv, gConns, gHealth, gHealthReg, gServePc, gServeErr,
                 gSigLost, gStopPc, gStopResult, gStops, gStopElapsed,
                 gStopWhileServing, gStopAfterSignal, gFailWaiting>>

\* Start reaches its select and blocks there, a receiver on errC and on sigC
GStartSelect ==
  /\ gStartPc = "block"
  /\ gStartPc' = "select"
  /\ UNCHANGED <<auxvars, envvars, hvars, gMutex, gStartResult, gStartVia, gListener,
                 gSrv, gConns, gHealth, gHealthReg, gServePc, gServeErr, gNotified,
                 gSigLost, gStopPc, gStopResult, gStops, gStopElapsed,
                 gStopWhileServing, gStopAfterSignal, gFailWaiting>>

\* goroutine: Serve enters its accept loop, or finds the server already stopped
GServeEnter ==
  /\ gServePc = "spawned"
  /\ IF gSrv = "new"
       THEN /\ gServePc' = "serving"
            /\ UNCHANGED <<gListener, gServeErr, gFailWaiting>>
       ELSE /\ gListener' = "closed"
            /\ gServeErr' = "ErrServerStopped"
            /\ gServePc' = "send"
            /\ gFailWaiting' = (gStartPc = "select")
  /\ UNCHANGED <<auxvars, envvars, hvars, gMutex, gStartPc, gStartResult, gStartVia,
                 gSrv, gConns, gHealth, gHealthReg, gNotified, gSigLost,
                 gStopPc, gStopResult, gStops, gStopElapsed,
                 gStopWhileServing, gStopAfterSignal>>

\* accept loop: a connection is accepted and has work in flight
GAccept ==
  /\ gServePc = "serving"
  /\ gSrv = "new"
  /\ gListener = "open"
  /\ gConns < MaxConns
  /\ gConns' = gConns + 1
  /\ UNCHANGED <<auxvars, envvars, hvars, gMutex, gStartPc, gStartResult, gStartVia,
                 gListener, gSrv, gHealth, gHealthReg, gServePc, gServeErr,
                 gNotified, gSigLost, gStopPc, gStopResult, gStops,
                 gStopElapsed, gStopWhileServing, gStopAfterSignal, gFailWaiting>>

\* the work of a connection finishes
GConnFinish ==
  /\ gConns > 0
  /\ gConns' = gConns - 1
  /\ UNCHANGED <<auxvars, envvars, hvars, gMutex, gStartPc, gStartResult, gStartVia,
                 gListener, gSrv, gHealth, gHealthReg, gServePc, gServeErr,
                 gNotified, gSigLost, gStopPc, gStopResult, gStops,
                 gStopElapsed, gStopWhileServing, gStopAfterSignal, gFailWaiting>>

\* accept loop: Accept fails for good while the server is not stopping
GAcceptError ==
  /\ gServePc = "serving"
  /\ gSrv = "new"
  /\ gListener' = "closed"
  /\ gServeErr' = "ErrAccept"
  /\ gServePc' = "send"
  /\ gFailWaiting' = (gStartPc = "select")
  /\ UNCHANGED <<auxvars, envvars, hvars, gMutex, gStartPc, gStartResult, gStartVia,
                 gSrv, gConns, gHealth, gHealthReg, gNotified, gSigLost,
                 gStopPc, gStopResult, gStops, gStopElapsed,
                 gStopWhileServing, gStopAfterSignal>>

\* accept loop: GracefulStop closed the listener, the loop is left
GServeQuit ==
  /\ gServePc = "serving"
  /\ gSrv # "new"
  /\ gServePc' = "exited"
  /\ UNCHANGED <<auxvars, envvars, hvars, gMutex, gStartPc, gStartResult, gStartVia,
                 gListener, gSrv, gConns, gHealth, gHealthReg, gServeErr,
                 gNotified, gSigLost, gStopPc, gStopResult, gStops,
                 gStopElapsed, gStopWhileServing, gStopAfterSignal, gFailWaiting>>

\* Serve returns nil once GracefulStop is done
GServeReturn ==
  /\ gServePc = "exited"
  /\ gSrv = "stopped"
  /\ gServeErr' = "nil"
  /\ gServePc' = "send"
  /\ UNCHANGED <<auxvars, envvars, hvars, gMutex, gStartPc, gStartResult, gStartVia,
                 gListener, gSrv, gConns, gHealth, gHealthReg, gNotified,
                 gSigLost, gStopPc, gStopResult, gStops, gStopElapsed,
                 gStopWhileServing, gStopAfterSignal, gFailWaiting>>

\* the unbuffered send s.errC <- err meets Start's case err := <-s.errC:
\* Start returns err, its deferred Unlock runs
GServeSend ==
  /\ gServePc = "send"
  /\ gStartPc = "select"
  /\ gServePc' = "done"
  /\ gStartResult' = gServeErr
  /\ gStartVia' = "errC"
  /\ gStartPc' = "done"
  /\ gMutex' = "free"
  /\ UNCHANGED <<auxvars, envvars, hvars, gListener, gSrv, gConns, gHealth,
                 gHealthReg, gServeErr, gNotified, gSigLost, gStopPc,
                 gStopResult, gStops, gStopElapsed, gStopWhileServing,
                 gStopAfterSignal, gFailWaiting>>

\* GSignal with Start stopping the transport itself before it returns
GSignalStops ==
  /\ gNotified
  /\ IF gStartPc = "select"
       THEN /\ gStartResult' = "nil"
            /\ gStartVia' = "sig"
            /\ gStartPc' = "done"
            /\ gMutex' = "free"
            /\ gSrv' = "stopping"
            /\ gListener' = IF gListener = "open" THEN "closed" ELSE gListener
            /\ UNCHANGED gSigLost
       ELSE /\ gSigLost' = TRUE
            /\ UNCHANGED <<gStartResult, gStartVia, gStartPc, gMutex, gSrv,
                           gListener>>
  /\ UNCHANGED <<auxvars, envvars, hvars, gConns, gHealth, gHealthReg, gServePc,
                 gServeErr, gNotified, gStopPc, gStopResult, gStops,
                 gStopElapsed, gStopWhileServing, gStopAfterSignal,
                 gFailWaiting>>

\* a notified signal arrives: os/signal sends without blocking, so it reaches
\* Start only if Start is blocked in its select (case sig := <-s.sigC: return nil)
GSignal ==
  /\ gNotified
  /\ IF gStartPc = "select"
       THEN /\ gStartResult' = "nil"
            /\ gStartVia' = "sig"
            /\ gStartPc' = "done"
            /\ gMutex' = "free"
            /\ UNCHANGED gSigLost
       ELSE /\ gSigLost' = TRUE
            /\ UNCHANGED <<gStartResult, gStartVia, gStartPc, gMutex>>
  /\ UNCHANGED <<auxvars, envvars, hvars, gListener, gSrv, gConns, gHealth,
                 gHealthReg, gServePc, gServeErr, gNotified, gStopPc,
                 gStopResult, gStops, gStopElapsed, gStopWhileServing,
                 gStopAfterSignal, gFailWaiting>>

\* ------------------------------------------------------- gRPC: Stop
\* a task calls Stop
GStopCall ==
  /\ variant = "grpc"
  /\ gStopPc \in {"idle", "done"}
  /\ gStops < MaxStops
  /\ gStopPc' = "lock"
  /\ gStopElapsed' = 0
  /\ gStopWhileServing' = (gStartPc = "select")
  /\ gStopAfterSignal' = (gStartPc = "done" /\ gStartVia = "sig")
  /\ UNCHANGED <<auxvars, envvars, hvars, gMutex, gStartPc, gStartResult, gStartVia,
                 gListener, gSrv, gConns, gHealth, gHealthReg, gServePc,
                 gServeErr, gNotified, gSigLost, gStopResult, gStops, gFailWaiting>>

\* GStopLock that does not wait for the mutex
GStopLockNoWait ==
  /\ gStopPc = "lock"
  /\ gMutex' = "Stop"
  /\ gStopPc' = "graceful"
  /\ UNCHANGED <<auxvars, envvars, hvars, gStartPc, gStartResult, gStartVia, gListener,
                 gSrv, gConns, gHealth, gHealthReg, gServePc, gServeErr,
                 gNotified, gSigLost, gStopResult, gStops, gStopElapsed,
                 gStopWhileServing, gStopAfterSignal, gFailWaiting>>

\* s.running.Lock()
GStopLock ==
  /\ gStopPc = "lock"
  /\ gMutex = "free"
  /\ gMutex' = "Stop"
  /\ gStopPc' = "graceful"
  /\ UNCHANGED <<auxvars, envvars, hvars, gStartPc, gStartResult, gStartVia, gListener,
                 gSrv, gConns, gHealth, gHealthReg, gServePc, gServeErr,
                 gNotified, gSigLost, gStopResult, gStops, gStopElapsed,
                 gStopWhileServing, gStopAfterSignal, gFailWaiting>>

\* GracefulStop: nothing to do on a stopped server; else close the listeners
\* Serve registered and stop taking new work
GStopBegin ==
  /\ gStopPc = "graceful"
  /\ IF gSrv = "stopped"
       THEN /\ gStopPc' = "ret"
            /\ UNCHANGED <<gSrv, gListener>>
       ELSE /\ gSrv' = "stopping"
            /\ gListener' = IF gServePc = "serving" /\ gListener = "open"
                              THEN "closed" ELSE gListener
            /\ gStopPc' = "wait"
  /\ UNCHANGED <<auxvars, envvars, hvars, gMutex, gStartPc, gStartResult, gStartVia,
                 gConns, gHealth, gHealthReg, gServePc, gServeErr, gNotified,
                 gSigLost, gStopResult, gStops, gStopElapsed,
                 gStopWhileServing, gStopAfterSignal, gFailWaiting>>

\* GracefulStop: wait for the accept loop to be left and the connections to drain
GStopDrained ==
  /\ gStopPc = "wait"
  /\ gServePc # "serving"
  /\ gConns = 0
  /\ gSrv' = "stopped"
  /\ gStopPc' = "ret"
  /\ UNCHANGED <<auxvars, envvars, hvars, gMutex, gStartPc, gStartResult, gStartVia,
                 gListener, gConns, gHealth, gHealthReg, gServePc, gServeErr,
                 gNotified, gSigLost, gStopResult, gStops, gStopElapsed,
                 gStopWhileServing, gStopAfterSignal, gFailWaiting>>

\* return nil; the deferred Unlock runs
GStopReturn ==
  /\ gStopPc = "ret"
  /\ gStopResult' = "nil"
  /\ gMutex' = "free"
  /\ gStops' = gStops + 1
  /\ gStopPc' = "done"
  /\ UNCHANGED <<auxvars, envvars, hvars, gStartPc, gStartResult, gStartVia, gListener,
                 gSrv, gConns, gHealth, gHealthReg, gServePc, gServeErr,
                 gNotified, gSigLost, gStopElapsed, gStopWhileServing,
                 gStopAfterSignal, gFailWaiting>>

\* The steps the program itself can take (the goroutines are runnable).
GProgramStep ==
  \/ GStartLock \/ GStartListen \/ GStartRegister \/ GStartSpawn \/ GStartNotify
  \/ GStartSelect
  \/ GServeEnter \/ GServeQuit \/ GServeReturn \/ GServeSend
  \/ GStopLock \/ GStopBegin \/ GStopDrained \/ GStopReturn

\* Time passes for the Stop call in progress (the count stops at stopTimeout),
\* and only while every task is blocked.
GTick ==
  /\ ~ENABLED GProgramStep
  /\ gStopPc \in {"lock", "graceful", "wait"}
  /\ gStopElapsed < stopTimeout
  /\ gStopElapsed' = gStopElapsed + 1
  /\ UNCHANGED <<auxvars, envvars, hvars, gMutex, gStartPc, gStartResult, gStartVia,
                 gListener, gSrv, gConns, gHealth, gHealthReg, gServePc,
                 gServeErr, gNotified, gSigLost, gStopPc, gStopResult, gStops,
                 gStopWhileServing, gStopAfterSignal, gFailWaiting>>

GNext ==
  \/ GStartCall
  \/ GStartLock
  \/ GStartListen
  \/ GStartRegister
  \/ GStartSpawn
  \/ GStartNotify
  \/ GStartSelect
  \/ GServeEnter
  \/ GAccept
  \/ GConnFinish
  \/ GAcceptError
  \/ GServeQuit
  \/ GServeReturn
  \/ GServeSend
  \/ GSignal
  \/ GStopCall
  \/ GStopLock
  \/ GStopBegin
  \/ GStopDrained
  \/ GStopReturn
  \/ GTick

Next == HNext \/ GNext

Spec == Init /\ [][Next]_vars

\* The Go scheduler runs every runnable goroutine and time passes: each step of
\* Start, of the serve goroutine and of a Stop in progress is taken if it stays
\* enabled.  What the environment does (cancel, signals, connections, accept
\* failures, further Stop calls) is under no obligation.
HFairness ==
  /\ WF_vars(HServeSetRunning) /\ WF_vars(HListen) /\ WF_vars(HServeTrack)
  /\ WF_vars(HServeClosed) /\ WF_vars(HServeSwitch) /\ WF_vars(HServeCloseErrC)
  /\ WF_vars(HStartRecvErr \/ HStartCtxDone)
  /\ WF_vars(HHealthWriteHeader)
  /\ \A c \in StopCallers :
       WF_vars(HShutdownBegin(c)) /\ WF_vars(HShutdownReturn(c)) /\ WF_vars(HStopReturn(c))
  /\ WF_vars(HTick)

GFairness ==
  /\ WF_vars(GStartLock) /\ WF_vars(GStartListen) /\ WF_vars(GStartRegister)
  /\ WF_vars(GStartSpawn) /\ WF_vars(GStartNotify) /\ WF_vars(GStartSelect)
  /\ WF_vars(GServeEnter) /\ WF_vars(GServeQuit) /\ WF_vars(GServeReturn)
  /\ WF_vars(GServeSend)
  /\ WF_vars(GStopLock) /\ WF_vars(GStopBegin) /\ WF_vars(GStopDrained)
  /\ WF_vars(GStopReturn)
  /\ WF_vars(GTick)

FairSpec == Init /\ [][Next]_vars /\ HFairness /\ GFairness

\* ------------------------------------------------------- CtxWithSignal
\* A server that is constructed and not started, for the specifications of
\* the functions beside the lifecycle.
NotStarted ==
  /\ addrFree = TRUE
  /\ stopTimeout = DefaultStopTimeout
  /\ HInit
  /\ GInit
  /\ QInit

CtxInit ==
  /\ variant = "http"
  /\ NotStarted
  /\ UIdle
  /\ Constructed /\ given = <<>>
  /\ RIdle
  /\ KIdle
  /\ cwsPc = "idle"
  /\ cwsArg \in SUBSET Signals
  /\ cwsSig = {}
  /\ cwsNotified = FALSE
  /\ stopC = <<>>
  /\ cwsCtxDone = FALSE
  /\ cwsParentDone = FALSE
  /\ cwsIn = 0
  /\ cwsOut = 0

\* CtxWithSignal(ctx, sig...): derive a cancellable context, default the set,
\* subscribe the buffered channel, spawn the goroutine and return
CtxWithSignal ==
  /\ cwsPc = "idle"
  /\ cwsSig' = IF Cardinality(cwsArg) < 1 THEN DefaultSignals ELSE cwsArg
  /\ cwsNotified' = TRUE
  /\ cwsCtxDone' = cwsParentDone
  /\ cwsPc' = "recv"
  /\ UNCHANGED <<uvars, envvars, hvars, gvars, qvars, cvars, rvars, kvars,
                 cwsArg, stopC, cwsParentDone, cwsIn, cwsOut>>

\* the parent context is cancelled: a context derived from it is done with it
CwsParentCancel ==
  /\ ~cwsParentDone
  /\ cwsParentDone' = TRUE
  /\ cwsCtxDone' = (cwsPc # "idle")
  /\ UNCHANGED <<uvars, envvars, hvars, gvars, qvars, cvars, rvars, kvars,
                 cwsPc, cwsArg, cwsSig, cwsNotified, stopC, cwsIn, cwsOut>>

\* CwsSignal with signal.Notify(stop) called without the set: every signal is relayed
CwsSignalAny(sg) ==
  /\ cwsPc # "idle"
  /\ IF sg \in cwsSig
       THEN cwsIn < MaxSignals /\ cwsIn' = cwsIn + 1 /\ UNCHANGED cwsOut
       ELSE cwsOut < MaxSignals /\ cwsOut' = cwsOut + 1 /\ UNCHANGED cwsIn
  /\ IF cwsNotified /\ Len(stopC) < StopCCap
       THEN stopC' = Append(stopC, sg)
       ELSE UNCHANGED stopC
  /\ UNCHANGED <<uvars, envvars, hvars, gvars, qvars, cvars, rvars, kvars,
                 cwsPc, cwsArg, cwsSig, cwsNotified, cwsCtxDone, cwsParentDone>>

\* the process receives signal sg: os/signal relays it to stop when it is one
\* of the subscribed set and the subscription is in force; the send does not
\* block, a signal that finds the buffer full is dropped
CwsSignal(sg) ==
  /\ cwsPc # "idle"
  /\ IF sg \in cwsSig
       THEN cwsIn < MaxSignals /\ cwsIn' = cwsIn + 1 /\ UNCHANGED cwsOut
       ELSE cwsOut < MaxSignals /\ cwsOut' = cwsOut + 1 /\ UNCHANGED cwsIn
  /\ IF cwsNotified /\ sg \in cwsSig /\ Len(stopC) < StopCCap
       THEN stopC' = Append(stopC, sg)
       ELSE UNCHANGED stopC
  /\ UNCHANGED <<uvars, envvars, hvars, gvars, qvars, cvars, rvars, kvars,
                 cwsPc, cwsArg, cwsSig, cwsNotified, cwsCtxDone, cwsParentDone>>

\* goroutine: <-stop
CwsRecv ==
  /\ cwsPc = "recv"
  /\ stopC # <<>>
  /\ stopC' = Tail(stopC)
  /\ cwsPc' = "cancel"
  /\ UNCHANGED <<uvars, envvars, hvars, gvars, qvars, cvars, rvars, kvars,
                 cwsArg, cwsSig, cwsNotified, cwsCtxDone, cwsParentDone, cwsIn, cwsOut>>

\* goroutine: cancel()
CwsCancel ==
  /\ cwsPc = "cancel"
  /\ cwsCtxDone' = TRUE
  /\ cwsPc' = "unsub"
  /\ UNCHANGED <<uvars, envvars, hvars, gvars, qvars, cvars, rvars, kvars,
                 cwsArg, cwsSig, cwsNotified, stopC, cwsParentDone, cwsIn, cwsOut>>

\* goroutine: signal.Stop(stop)
CwsSignalStop ==
  /\ cwsPc = "unsub"
  /\ cwsNotified' = FALSE
  /\ cwsPc' = "done"
  /\ UNCHANGED <<uvars, envvars, hvars, gvars, qvars, cvars, rvars, kvars,
                 cwsArg, cwsSig, stopC, cwsCtxDone, cwsParentDone, cwsIn, cwsOut>>

CtxNext ==
  \/ CtxWithSignal
  \/ CwsParentCancel
  \/ \E sg \in Signals : CwsSignal(sg)
  \/ CwsRecv
  \/ CwsCancel
  \/ CwsSignalStop

\* the call returns and the goroutine runs; signals and the parent's
\* cancellation are under no obligation
CtxSpec ==
  /\ CtxInit /\ [][CtxNext]_vars
  /\ WF_vars(CtxWithSignal) /\ WF_vars(CwsRecv) /\ WF_vars(CwsCancel)
  /\ WF_vars(CwsSignalStop)

\* ------------------------------------------------------- New
\* New is called with the options `given`; the fields have their defaults.
ConfInit ==
  /\ variant \in Variants
  /\ NotStarted
  /\ UIdle
  /\ SIdle
  /\ RIdle
  /\ KIdle
  /\ newPc = "opts"
  /\ given \in SeqsUpTo(IF variant = "http" THEN HttpOptions ELSE GrpcOptions, MaxOpts)
  /\ opts = given
  /\ NewDefaults
  /\ SrvHandler = Handler("nil", "", ZeroHealth)
  /\ reqPath = <<>>
  /\ answeredBy = Answer("none", "", ZeroHealth)

\* NewApplyOption taking the options from the end of the list
NewApplyOptionReverse ==
  /\ newPc = "opts"
  /\ opts # <<>>
  /\ LET o == opts[Len(opts)]
     IN /\ Addr' = IF o.name \in {"WithAddr", "WithAddress"} THEN o.s ELSE Addr
        /\ log' = IF o.name = "WithLogger" THEN o.s ELSE log
        /\ handler' = IF o.name = "WithHandler" THEN o.s ELSE handler
        /\ healthOpt' = IF o.name = "WithHealth" THEN o.h ELSE healthOpt
        /\ stopTimeout' = IF o.name = "WithStopTimeout" THEN o.d ELSE stopTimeout
        /\ gSrvOpt' = IF o.name = "WithServer" THEN o.s ELSE gSrvOpt
  /\ opts' = SubSeq(opts, 1, Len(opts) - 1)
  /\ UNCHANGED <<uvars, variant, addrFree, hvars, gvars, qvars, svars, rvars, kvars,
                 newPc, given, SrvHandler, reqPath, answeredBy>>

\* for _, opt := range opts { opt(s) }: one iteration, the next option assigns
\* its field
NewApplyOption ==
  /\ newPc = "opts"
  /\ opts # <<>>
  /\ LET o == Head(opts)
     IN /\ Addr' = IF o.name \in {"WithAddr", "WithAddress"} THEN o.s ELSE Addr
        /\ log' = IF o.name = "WithLogger" THEN o.s ELSE log
        /\ handler' = IF o.name = "WithHandler" THEN o.s ELSE handler
        /\ healthOpt' = IF o.name = "WithHealth" THEN o.h ELSE healthOpt
        /\ stopTimeout' = IF o.name = "WithStopTimeout" THEN o.d ELSE stopTimeout
        /\ gSrvOpt' = IF o.name = "WithServer" THEN o.s ELSE gSrvOpt
  /\ opts' = Tail(opts)
  /\ UNCHANGED <<uvars, variant, addrFree, hvars, gvars, qvars, svars, rvars, kvars,
                 newPc, given, SrvHandler, reqPath, answeredBy>>

\* http New: s.Srv.Handler = s.handler; if s.handler == nil, the health handler
\* with AppName "kit"
NewSetHandler ==
  /\ variant = "http"
  /\ newPc = "opts"
  /\ opts = <<>>
  /\ SrvHandler' = IF handler = "nil"
                     THEN Handler("health", "", KitHealth)
                     ELSE Handler("h", handler, ZeroHealth)
  /\ newPc' = "mux"
  /\ UNCHANGED <<uvars, envvars, hvars, gvars, qvars, svars, rvars, kvars,
                 opts, given, Addr, log, handler, healthOpt, gSrvOpt,
                 reqPath, answeredBy>>

\* http New: if s.healthOpt.Path != "", a ServeMux with "/" -> s.handler and
\* Path -> the health handler; mux.Handle panics on a nil handler and on a
\* pattern registered twice
NewMux ==
  /\ newPc = "mux"
  /\ IF healthOpt.Path # <<>>
       THEN IF handler = "nil" \/ healthOpt.Path = Root
              THEN newPc' = "panic" /\ UNCHANGED SrvHandler
              ELSE /\ SrvHandler' = Handler("mux", handler, healthOpt)
                   /\ newPc' = "done"
       ELSE newPc' = "done" /\ UNCHANGED SrvHandler
  /\ UNCHANGED <<uvars, envvars, hvars, gvars, qvars, svars, rvars, kvars,
                 opts, given, Addr, log, handler, healthOpt, gSrvOpt,
                 reqPath, answeredBy>>

\* grpc New: return s
GNewReturn ==
  /\ variant = "grpc"
  /\ newPc = "opts"
  /\ opts = <<>>
  /\ newPc' = "done"
  /\ UNCHANGED <<uvars, envvars, hvars, gvars, qvars, svars, rvars, kvars,
                 opts, given, Addr, log, handler, healthOpt, SrvHandler, gSrvOpt,
                 reqPath, answeredBy>>

\* the server New returned answers a request to path with Srv.Handler
NewRequest(path) ==
  /\ variant = "http"
  /\ newPc = "done"
  /\ reqPath' = path
  /\ answeredBy' = ServeHTTP(SrvHandler, path)
  /\ UNCHANGED <<uvars, envvars, hvars, gvars, qvars, svars, rvars, kvars,
                 newPc, opts, given, Addr, log, handler, healthOpt, SrvHandler,
                 gSrvOpt>>

ConfNext ==
  \/ NewApplyOption
  \/ NewSetHandler
  \/ NewMux
  \/ GNewReturn
  \/ \E path \in RequestPaths : NewRequest(path)

ConfSpec == ConfInit /\ [][ConfNext]_vars

\* ------------------------------------------------------- HealthRequest
\* HealthRequest is called with the names hrSvc against a health server that
\* answers hrServer.
HealthInit ==
  /\ variant = "grpc"
  /\ NotStarted
  /\ UIdle
  /\ Constructed
  /\ SIdle
  /\ KIdle
  /\ hrPc = "idle"
  /\ hrSvc \in SeqsUpTo(SvcNames, MaxSvc)
  /\ hrDialOK \in BOOLEAN
  /\ hrServer \in [SvcNames -> CheckAnswers]
  /\ hrTask = <<>>
  /\ hrErrC = <<>>
  /\ hrErrCClosed = FALSE
  /\ hrResult = "none"

\* NewClient (its error is returned); make errC; one goroutine per name, each
\* counted in the WaitGroup
HealthRequest ==
  /\ hrPc = "idle"
  /\ IF hrDialOK
       THEN /\ hrTask' = [i \in 1..Len(hrSvc) |-> "check"]
            /\ hrPc' = "wait"
            /\ UNCHANGED hrResult
       ELSE /\ hrResult' = "err"
            /\ hrPc' = "done"
            /\ UNCHANGED hrTask
  /\ UNCHANGED <<uvars, envvars, hvars, gvars, qvars, cvars, svars, kvars,
                 hrSvc, hrDialOK, hrServer, hrErrC, hrErrCClosed>>

\* goroutine i: hc.Check; on SERVING it returns (wg.Done), on NOT_SERVING,
\* UNKNOWN or a failed call it goes on to send an error on errC
HrCheck(i) ==
  /\ i \in DOMAIN hrTask
  /\ hrTask[i] = "check"
  /\ hrTask' = [hrTask EXCEPT ![i] =
                  IF hrServer[hrSvc[i]] = "SERVING" THEN "done" ELSE "send"]
  /\ UNCHANGED <<uvars, envvars, hvars, gvars, qvars, cvars, svars, kvars,
                 hrPc, hrSvc, hrDialOK, hrServer, hrErrC, hrErrCClosed, hrResult>>

\* goroutine i: errC <- err, which blocks while the buffer is full; then it
\* returns (wg.Done)
HrSend(i) ==
  /\ i \in DOMAIN hrTask
  /\ hrTask[i] = "send"
  /\ Len(hrErrC) < HrErrCCap
  /\ hrErrC' = Append(hrErrC, hrSvc[i])
  /\ hrTask' = [hrTask EXCEPT ![i] = "done"]
  /\ UNCHANGED <<uvars, envvars, hvars, gvars, qvars, cvars, svars, kvars,
                 hrPc, hrSvc, hrDialOK, hrServer, hrErrCClosed, hrResult>>

\* wg.Wait() returns when every goroutine has returned; close(errC)
HrWaitClose ==
  /\ hrPc = "wait"
  /\ \A i \in DOMAIN hrTask : hrTask[i] = "done"
  /\ hrErrCClosed' = TRUE
  /\ hrPc' = "recv"
  /\ UNCHANGED <<uvars, envvars, hvars, gvars, qvars, cvars, svars, kvars,
                 hrSvc, hrDialOK, hrServer, hrTask, hrErrC, hrResult>>

\* err = <-errC; return err (nil from the closed, empty channel)
HrReturn ==
  /\ hrPc = "recv"
  /\ hrResult' = IF hrErrC # <<>> THEN "err" ELSE "nil"
  /\ hrErrC' = IF hrErrC # <<>> THEN Tail(hrErrC) ELSE hrErrC
  /\ hrPc' = "done"
  /\ UNCHANGED <<uvars, envvars, hvars, gvars, qvars, cvars, svars, kvars,
                 hrSvc, hrDialOK, hrServer, hrTask, hrErrCClosed>>

HealthNext ==
  \/ HealthRequest
  \/ \E i \in 1..MaxSvc : HrCheck(i)
  \/ \E i \in 1..MaxSvc : HrSend(i)
  \/ HrWaitClose
  \/ HrReturn

\* every goroutine that can take a step takes it
HealthSpec ==
  /\ HealthInit /\ [][HealthNext]_vars
  /\ WF_vars(HealthRequest) /\ WF_vars(HrWaitClose) /\ WF_vars(HrReturn)
  /\ \A i \in 1..MaxSvc : WF_vars(HrCheck(i)) /\ WF_vars(HrSend(i))

\* ------------------------------------------------------- ReadInConfig
\* ReadInConfig(v, &c, WithFile(...), BindFlag(key, flag)) for one key of c:
\* the field holds its default, the file, the environment and the flag are as
\* the caller and the process have them, v is a fresh ViperWithDefaults.
ConfigInit ==
  /\ variant = "http"
  /\ NotStarted
  /\ UIdle
  /\ Constructed /\ given = <<>>
  /\ SIdle
  /\ RIdle
  /\ VInit
  /\ kDefault \in {"", "default"}
  /\ kField = kDefault
  /\ kFile \in {[set |-> FALSE, val |-> "", ok |-> TRUE],
                [set |-> TRUE, val |-> "file", ok |-> TRUE],
                [set |-> FALSE, val |-> "", ok |-> FALSE]}
  /\ kEnv \in {Val(FALSE, ""), Val(TRUE, ""), Val(TRUE, "env")}
  /\ kFlag \in {[bound |-> FALSE, changed |-> FALSE, val |-> ""],
                [bound |-> TRUE, changed |-> FALSE, val |-> ""],
                [bound |-> TRUE, changed |-> FALSE, val |-> "flagdef"],
                [bound |-> TRUE, changed |-> TRUE, val |-> "flag"]}

\* the options: WithFile names the file, BindFlag binds the flag to the key
\* (a nil flag is skipped)
KApplyOptions ==
  /\ kPc = "idle"
  /\ vPflags' = kFlag.bound
  /\ kPc' = "bindEnvs"
  /\ UNCHANGED <<uvars, envvars, hvars, gvars, qvars, cvars, svars, rvars,
                 kField, kDefault, kFile, kEnv, kFlag, vEnv, vConfig, kErr>>

\* bindEnvs: v.BindEnv for the key of every field of c
KBindEnvs ==
  /\ kPc = "bindEnvs"
  /\ vEnv' = TRUE
  /\ kPc' = "read"
  /\ UNCHANGED <<uvars, envvars, hvars, gvars, qvars, cvars, svars, rvars,
                 kField, kDefault, kFile, kEnv, kFlag, vPflags, vConfig, kErr>>

\* v.ReadInConfig(): a missing file is ignored, any other error is returned
KReadFile ==
  /\ kPc = "read"
  /\ IF kFile.ok
       THEN /\ vConfig' = Val(kFile.set, kFile.val)
            /\ kPc' = "unmarshal"
            /\ UNCHANGED kErr
       ELSE /\ kErr' = "err"
            /\ kPc' = "done"
            /\ UNCHANGED vConfig
  /\ UNCHANGED <<uvars, envvars, hvars, gvars, qvars, cvars, svars, rvars,
                 kField, kDefault, kFile, kEnv, kFlag, vPflags, vEnv>>

\* Find with the environment looked up before the flag
FindEnvFirst ==
  IF vEnv /\ kEnv.set /\ kEnv.val # "" THEN Val(TRUE, kEnv.val)
  ELSE IF vPflags /\ kFlag.changed THEN Val(TRUE, kFlag.val)
  ELSE IF vConfig.set THEN vConfig
  ELSE IF vPflags THEN Val(TRUE, kFlag.val)
  ELSE Val(FALSE, "")

\* viper's lookup of the key (v1.3.1 find): a bound flag that was changed; the
\* bound environment variable unless empty; the config file; at last a bound
\* flag's value even though the flag was not changed
Find ==
  IF vPflags /\ kFlag.changed THEN Val(TRUE, kFlag.val)
  ELSE IF vEnv /\ kEnv.set /\ kEnv.val # "" THEN Val(TRUE, kEnv.val)
  ELSE IF vConfig.set THEN vConfig
  ELSE IF vPflags THEN Val(TRUE, kFlag.val)
  ELSE Val(FALSE, "")

\* v.Unmarshal(c): the field is assigned when viper has a value for the key
KUnmarshal ==
  /\ kPc = "unmarshal"
  /\ kField' = IF Find.set THEN Find.val ELSE kField
  /\ kErr' = "nil"
  /\ kPc' = "done"
  /\ UNCHANGED <<uvars, envvars, hvars, gvars, qvars, cvars, svars, rvars,
                 kDefault, kFile, kEnv, kFlag, vPflags, vEnv, vConfig>>

ConfigNext ==
  \/ KApplyOptions
  \/ KBindEnvs
  \/ KReadFile
  \/ KUnmarshal

ConfigSpec == ConfigInit /\ [][ConfigNext]_vars

\* ------------------------------------------------------- RequestIDHandler
\* Requests a middleware serves, per behaviour.
MaxRequests == 2

\* A middleware RequestIDHandler(fieldKey, headerName)(next) has been built and
\* has served nothing.
RidInit ==
  /\ variant = "http"
  /\ NotStarted
  /\ Constructed /\ given = <<>>
  /\ SIdle
  /\ RIdle
  /\ KIdle
  /\ FIdle
  /\ MIdle
  /\ ridPc = "idle"
  /\ fieldKey \in {"", "requestid"}
  /\ headerName \in {"", "Request-ID"}
  /\ rCtx = Val(FALSE, EmptyID)
  /\ rHeader = EmptyID
  /\ ridId = EmptyID
  /\ ridOk = FALSE
  /\ ridCtx = Val(FALSE, EmptyID)
  /\ ridLog = Val(FALSE, EmptyID)
  /\ wHeader = EmptyID
  /\ xidCount = 0
  /\ ridSeen = {}
  /\ ridReqs = 0

\* IDFromCtx: the value stored under idKey{}, if any
IDFromCtx(ctx) == ctx

\* IDFromRequest: the id of the context; else, when a header is named, that
\* header's value unless empty; with no header named, the zero id and true
IDFromRequest(ctx, hdr, name) ==
  IF IDFromCtx(ctx).set THEN IDFromCtx(ctx)
  ELSE IF name # "" /\ hdr = EmptyID THEN Val(FALSE, hdr)
  ELSE IF name # "" THEN Val(TRUE, hdr)
  ELSE Val(TRUE, EmptyID)

\* a request arrives: its context carries an id or not (an outer
\* RequestIDHandler stored one), its header headerName has a value or not
RidRequest(c, h) ==
  /\ ridPc \in {"idle", "served"}
  /\ ridReqs < MaxRequests
  /\ ridReqs' = ridReqs + 1
  /\ ridSeen' = IF ridPc = "served" THEN ridSeen \cup {ridId} ELSE ridSeen
  /\ rCtx' = c
  /\ rHeader' = h
  /\ ridCtx' = c
  /\ ridId' = EmptyID
  /\ ridOk' = FALSE
  /\ ridLog' = Val(FALSE, EmptyID)
  /\ wHeader' = EmptyID
  /\ ridPc' = "lookup"
  /\ UNCHANGED <<envvars, hvars, gvars, qvars, cvars, svars, rvars, kvars, fvars, mvars,
                 fieldKey, headerName, xidCount>>

\* id, ok := IDFromRequest(r, headerName)
RidLookup ==
  /\ ridPc = "lookup"
  /\ ridId' = IDFromRequest(rCtx, rHeader, headerName).val
  /\ ridOk' = IDFromRequest(rCtx, rHeader, headerName).set
  /\ ridPc' = IF IDFromRequest(rCtx, rHeader, headerName).set THEN "log" ELSE "generate"
  /\ UNCHANGED <<envvars, hvars, gvars, qvars, cvars, svars, rvars, kvars, fvars, mvars,
                 fieldKey, headerName, rCtx, rHeader, ridCtx, ridLog, wHeader,
                 xidCount, ridSeen, ridReqs>>

\* if !ok: a new xid, stored in the context of the request handed on
RidGenerate ==
  /\ ridPc = "generate"
  /\ xidCount' = xidCount + 1
  /\ ridId' = ID("xid", xidCount + 1)
  /\ ridCtx' = Val(TRUE, ID("xid", xidCount + 1))
  /\ ridPc' = "log"
  /\ UNCHANGED <<envvars, hvars, gvars, qvars, cvars, svars, rvars, kvars, fvars, mvars,
                 fieldKey, headerName, rCtx, rHeader, ridOk, ridLog, wHeader,
                 ridSeen, ridReqs>>

\* if fieldKey != "": the request logger gets the field fieldKey = id
RidLogField ==
  /\ ridPc = "log"
  /\ ridLog' = IF fieldKey # "" THEN Val(TRUE, ridId) ELSE ridLog
  /\ ridPc' = "header"
  /\ UNCHANGED <<envvars, hvars, gvars, qvars, cvars, svars, rvars, kvars, fvars, mvars,
                 fieldKey, headerName, rCtx, rHeader, ridId, ridOk, ridCtx, wHeader,
                 xidCount, ridSeen, ridReqs>>

\* if headerName != "": w.Header().Set(headerName, id)
RidSetHeader ==
  /\ ridPc = "header"
  /\ wHeader' = IF headerName # "" THEN ridId ELSE wHeader
  /\ ridPc' = "next"
  /\ UNCHANGED <<envvars, hvars, gvars, qvars, cvars, svars, rvars, kvars, fvars, mvars,
                 fieldKey, headerName, rCtx, rHeader, ridId, ridOk, ridCtx, ridLog,
                 xidCount, ridSeen, ridReqs>>

\* next.ServeHTTP(w, r)
RidServeNext ==
  /\ ridPc = "next"
  /\ ridPc' = "served"
  /\ UNCHANGED <<envvars, hvars, gvars, qvars, cvars, svars, rvars, kvars, fvars, mvars,
                 fieldKey, headerName, rCtx, rHeader, ridId, ridOk, ridCtx, ridLog,
                 wHeader, xidCount, ridSeen, ridReqs>>

RidNext ==
  \/ \E c \in {Val(FALSE, EmptyID), Val(TRUE, ID("outer", 0))},
        h \in {EmptyID, ID("client", 0)} : RidRequest(c, h)
  \/ RidLookup
  \/ RidGenerate
  \/ RidLogField
  \/ RidSetHeader
  \/ RidServeNext

RidSpec == RidInit /\ [][RidNext]_vars

\* ------------------------------------------------------- FilterChain
\* Filters passed to one call of FilterChain.
MaxFilters == 4

\* FilterChain(filters...) has returned the chain; for the request at hand
\* each filter answers true (trace) or false.
FcInit ==
  /\ variant = "grpc"
  /\ NotStarted
  /\ Constructed
  /\ SIdle
  /\ RIdle
  /\ KIdle
  /\ IIdle
  /\ MIdle
  /\ fcPc = "idle"
  /\ filters \in SeqsUpTo(BOOLEAN, MaxFilters)
  /\ fcI = 0
  /\ fcCalled = <<>>
  /\ fcResult = FALSE

\* the chain is called with the request: the range loop starts
FcCall ==
  /\ fcPc = "idle"
  /\ fcPc' = "loop"
  /\ fcI' = 1
  /\ UNCHANGED <<envvars, hvars, gvars, qvars, cvars, svars, rvars, kvars, ivars, mvars,
                 filters, fcCalled, fcResult>>

\* one round of the loop that calls every filter and answers with the last
FcLoopAll ==
  /\ fcPc = "loop"
  /\ fcI <= Len(filters)
  /\ fcCalled' = Append(fcCalled, fcI)
  /\ fcResult' = filters[fcI]
  /\ fcI' = fcI + 1
  /\ fcPc' = IF fcI = Len(filters) THEN "done" ELSE "loop"
  /\ UNCHANGED <<envvars, hvars, gvars, qvars, cvars, svars, rvars, kvars, ivars, mvars,
                 filters>>

\* one round of the loop: if !f(info) { return false }
FcLoop ==
  /\ fcPc = "loop"
  /\ fcI <= Len(filters)
  /\ fcCalled' = Append(fcCalled, fcI)
  /\ IF ~filters[fcI]
       THEN /\ fcResult' = FALSE
            /\ fcPc' = "done"
            /\ UNCHANGED fcI
       ELSE /\ fcI' = fcI + 1
            /\ UNCHANGED <<fcPc, fcResult>>
  /\ UNCHANGED <<envvars, hvars, gvars, qvars, cvars, svars, rvars, kvars, ivars, mvars,
                 filters>>

\* the loop is over: return true
FcReturnTrue ==
  /\ fcPc = "loop"
  /\ fcI > Len(filters)
  /\ fcResult' = TRUE
  /\ fcPc' = "done"
  /\ UNCHANGED <<envvars, hvars, gvars, qvars, cvars, svars, rvars, kvars, ivars, mvars,
                 filters, fcI, fcCalled>>

FcNext ==
  \/ FcCall
  \/ FcLoop
  \/ FcReturnTrue

FcSpec == FcInit /\ [][FcNext]_vars

\* ------------------------------------------------------- Migrator
\* Methods called on one Migrator, per behaviour.
MaxOps == 3
\* Largest argument passed to Up (steps) and to Force (v).
MaxArg == 2

\* NewMigrator has returned a Migrator on an open *sql.DB.
MigInit ==
  /\ variant = "http"
  /\ NotStarted
  /\ Constructed /\ given = <<>>
  /\ SIdle
  /\ RIdle
  /\ KIdle
  /\ IIdle
  /\ FIdle
  /\ mPc = "idle"
  /\ mOp = ""
  /\ mArg = 0
  /\ dbClosed = FALSE
  /\ dbCloses = 0
  /\ mErr = "none"
  /\ mCalls = 0
  /\ mEntryClosed = FALSE

\* a method is entered: its first statement defers m.Db.Close()
MEnter(op, arg) ==
  /\ mPc = "idle"
  /\ mCalls < MaxOps
  /\ mCalls' = mCalls + 1
  /\ mOp' = op
  /\ mArg' = arg
  /\ mEntryClosed' = dbClosed
  /\ mErr' = "none"
  /\ mPc' = "body"
  /\ UNCHANGED <<envvars, hvars, gvars, qvars, cvars, svars, rvars, kvars, ivars, fvars,
                 dbClosed, dbCloses>>

\* Up(steps)
MUp(steps) == MEnter("Up", steps)

\* Down()
MDown == MEnter("Down", 0)

\* Force(v)
MForce(v) == MEnter("Force", v)

\* Version()
MVersion == MEnter("Version", 0)

\* the call into the migrate library (Up or Steps, Down, Force, Version)
\* returns: nil or an error, as the library and the database decide
MBody(res) ==
  /\ mPc = "body"
  /\ mErr' = res
  /\ mPc' = "deferred"
  /\ UNCHANGED <<envvars, hvars, gvars, qvars, cvars, svars, rvars, kvars, ivars, fvars,
                 mOp, mArg, dbClosed, dbCloses, mCalls, mEntryClosed>>

\* MDeferredClose that closes the handle only after a failed operation
MCloseOnError ==
  /\ mPc = "deferred"
  /\ dbClosed' = (dbClosed \/ mErr = "err")
  /\ dbCloses' = IF mErr = "err" THEN dbCloses + 1 ELSE dbCloses
  /\ mPc' = "idle"
  /\ UNCHANGED <<envvars, hvars, gvars, qvars, cvars, svars, rvars, kvars, ivars, fvars,
                 mOp, mArg, mErr, mCalls, mEntryClosed>>

\* the method returns: the deferred m.Db.Close() runs, whatever is returned
MDeferredClose ==
  /\ mPc = "deferred"
  /\ dbClosed' = TRUE
  /\ dbCloses' = dbCloses + 1
  /\ mPc' = "idle"
  /\ UNCHANGED <<envvars, hvars, gvars, qvars, cvars, svars, rvars, kvars, ivars, fvars,
                 mOp, mArg, mErr, mCalls, mEntryClosed>>

MigNext ==
  \/ \E steps \in 0..MaxArg : MUp(steps)
  \/ MDown
  \/ \E v \in 0..MaxArg : MForce(v)
  \/ MVersion
  \/ \E res \in {"nil", "err"} : MBody(res)
  \/ MDeferredClose

MigSpec == MigInit /\ [][MigNext]_vars

\* ======================================================================
\* Claims
\* ======================================================================

\* C1: HTTP server: whenever Running is true (the health probe answers
\* serving=true), the listener has already been bound successfully.
C1_RunningImpliesBound ==
  (variant = "http" /\ Running) => hListener # "none"

\* C2: HTTP server whose address cannot be bound: when Start has returned the
\* bind error, no serve task was ever spawned and Running is false.
C2_BindFailureLeavesIdle ==
  (variant = "http" /\ hStartPc = "done" /\ hStartResult = "ErrBind")
    => (~Running /\ hServePc = "none")

C5_RuntimeErrorAlwaysReturned ==
  /\ (variant = "http" /\ hFailWaiting /\ hServePc \in {"close", "done"})
       => /\ hStopPc["start"] = "idle"
          /\ hStartPc = "done" => hStartResult = hServeErr
  /\ (variant = "grpc" /\ gFailWaiting /\ gStartPc = "done")
       => gStartResult = gServeErr

\* C5 (amended): when the serve loop failed with a runtime error while Start
\* was waiting and the cancellation source has not fired (HTTP: the context is
\* not cancelled; gRPC: Start did not receive a signal), Start returns exactly
\* that error and Stop is not invoked; the same holds whenever Start takes the
\* errC branch.
C5_RuntimeErrorReturnedUnlessCancelled ==
  /\ (variant = "http" /\ hFailWaiting /\ ~ctxDone)
       => /\ hStopPc["start"] = "idle"
          /\ hStartPc = "done" => (hStartResult = hServeErr /\ hStartVia = "errC")
  /\ (variant = "http" /\ hFailWaiting /\ hStartPc = "done" /\ hStartVia = "errC")
       => (hStartResult = hServeErr /\ hStopPc["start"] = "idle")
  /\ (variant = "grpc" /\ gFailWaiting /\ gStartPc = "done" /\ gStartVia # "sig")
       => (gStartResult = gServeErr /\ gStartVia = "errC")

\* C5 witness: Start has returned a runtime error of the serve loop.
C5_Witness ==
  \/ /\ variant = "http" /\ hFailWaiting /\ hStartPc = "done"
     /\ hStartResult = "ErrAccept" /\ ~ctxDone
  \/ /\ variant = "grpc" /\ gFailWaiting /\ gStartPc = "done"
     /\ gStartResult = "ErrAccept"

\* C6: HTTP server: once Start has returned (either path), the serve goroutine
\* eventually terminates.
C6_HttpServeTerminates ==
  [](( variant = "http" /\ hStartPc = "done") => <>(hServePc = "done"))

\* C6 witness: Start returned on cancellation and the serve goroutine is done.
C6_Witness ==
  /\ variant = "http" /\ hStartPc = "done" /\ hStartVia = "ctx"
  /\ hServePc = "done" /\ hListener = "closed"

\* C7: gRPC server: after Start has returned, the serve goroutine is never
\* parked on its send to errC (no task receives from errC once Start has
\* returned, so a goroutine parked there stays there for good).
C7_GrpcServeNeverStuckOnSend ==
  (variant = "grpc" /\ gStartPc = "done") => gServePc # "send"

C9_StopAfterCancelNilAtOnce ==
  /\ (variant = "http" /\ hExtAfterCancel /\ hStopPc["ext"] = "done")
       => (hStopResult["ext"] = "nil" /\ hElapsed["ext"] = 0)
  /\ (variant = "grpc" /\ gStopAfterSignal /\ gStopPc = "done")
       => (gStopResult = "nil" /\ gStopElapsed = 0)

\* C9 (amended): a Stop call made after Start has returned via cancellation
\* never deadlocks, however often it is repeated: an HTTP call returns within
\* stopTimeout, nil once no connection is in flight and the deadline error
\* otherwise; a gRPC call returns nil once the in-flight work has drained; and
\* no step of Stop changes Running.
C9_StopAfterCancelReturns ==
  /\ [](( variant = "http" /\ hExtAfterCancel)
          => /\ (hStopPc["ext"] = "wait" /\ hElapsed["ext"] >= stopTimeout)
                  => ENABLED HShutdownReturn("ext")
             /\ (hStopPc["ext"] = "wait" /\ hConns = 0 /\ ~hTracked)
                  => ENABLED HShutdownReturn("ext")
             /\ hStopPc["ext"] \in {"ret", "done"}
                  => \/ hShutdownRes["ext"] = "nil" /\ hConns = 0
                     \/ hShutdownRes["ext"] = "ErrDeadline"
                          /\ hElapsed["ext"] >= stopTimeout
             /\ hStopPc["ext"] = "done" => hStopResult["ext"] = hShutdownRes["ext"])
  /\ [](( variant = "grpc" /\ gStopAfterSignal)
          => /\ gStopPc = "lock" => ENABLED GStopLock
             /\ (gStopPc = "wait" /\ gConns = 0 /\ gServePc # "serving")
                  => ENABLED GStopDrained
             /\ gStopPc = "done" => (gStopResult = "nil" /\ gSrv = "stopped"))
  /\ [][hStopPc' # hStopPc => Running' = Running]_vars

\* C9 witness: Stop has been repeated after Start returned via cancellation.
C9_Witness ==
  \/ /\ variant = "http" /\ hExtAfterCancel /\ hStopPc["ext"] = "done"
     /\ hExtStops >= 2
  \/ /\ variant = "grpc" /\ gStopAfterSignal /\ gStopPc = "done" /\ gStops >= 2

\* C10: gRPC server: a Stop call made while Start is blocked serving eventually
\* returns (or Start returns first), with no signal and no serve error needed.
C10_StopStopsServingServer ==
  [](( variant = "grpc" /\ gStopPc = "lock" /\ gStopWhileServing)
       => <>(gStopPc = "done" \/ gStartPc = "done"))

\* C11: HTTP server: no two tasks access Running concurrently: while the
\* health handler is between its two reads of s.Running, the serve goroutine is
\* not at one of its writes of s.Running (s.Running = true after the spawn,
\* s.Running = false after ListenAndServe returned ErrServerClosed).
C11_RunningAccessExclusive ==
  ~( /\ variant = "http"
     /\ hReqPc = "header"
     /\ \/ hServePc = "spawned"
        \/ hServePc = "returned" /\ hServeErr = "ErrServerClosed" )

\* C16: a response of the HTTP health handler is status 200 with serving=true
\* or status 503 with serving=false, and its app and version are those of the
\* HealthOptions the handler was made with.
C16_HealthStatusMatchesBody ==
  (variant = "http" /\ hReqPc = "written")
    => /\ \/ hRespStatus = StatusOK /\ hRespServing
          \/ hRespStatus = StatusServiceUnavailable /\ ~hRespServing
       /\ hRespApp = SrvHandler.opt.AppName
       /\ hRespVersion = SrvHandler.opt.Version

\* C12: HTTP server: when the context is cancelled before the serve goroutine
\* has bound the listener, Start returns and the server ends up stopped for
\* good: not accepting and Running false.
C12_CancelBeforeBindStops ==
  [](( /\ variant = "http" /\ hStartPc = "select" /\ ctxDone
       /\ hServePc \in {"spawned", "listen"} )
       => <>[](hStartPc = "done" /\ hListener # "open" /\ ~Running))

\* C13: HTTP server: once Start has returned via cancellation, Running
\* eventually is false and stays false.
C13_RunningFalseAfterCancel ==
  [](( variant = "http" /\ hStartPc = "done" /\ hStartVia = "ctx")
       => <>[](~Running))

\* C14: gRPC server: every registered service name is marked SERVING before
\* the serve loop accepts (no state has the server serving, or a connection
\* accepted, with a service still unmarked), and each name is marked once: the
\* health table changes only in Start's registration step, from all names
\* unmarked to all names SERVING.
C14_MarkedBeforeAccepting ==
  /\ [](( variant = "grpc" /\ (gServePc = "serving" \/ gConns > 0))
          => (gHealthReg /\ \A n \in Services : gHealth[n] = "SERVING"))
  /\ [][gHealth' # gHealth
         => /\ gStartPc = "register"
            /\ \A n \in Services : gHealth[n] = "unset" /\ gHealth'[n] = "SERVING"]_vars

\* C14 witness: the serve loop has accepted a connection with every service marked.
C14_Witness ==
  /\ variant = "grpc" /\ gServePc = "serving" /\ gConns > 0
  /\ \A n \in Services : gHealth[n] = "SERVING"

\* C15: the context CtxWithSignal returns becomes done once a signal of the
\* configured set (SIGTERM, SIGQUIT, SIGINT when none is given) has been
\* delivered; a signal outside the set changes neither the context nor the
\* channel, and the context is done only after a configured signal or the
\* parent's cancellation; once done it stays done whatever arrives later.
C15_CtxDoneOnConfiguredSignal ==
  /\ [](cwsIn > 0 => <>cwsCtxDone)
  /\ [](cwsPc # "idle" => cwsSig = (IF cwsArg = {} THEN DefaultSignals ELSE cwsArg))
  /\ [](cwsCtxDone => (cwsIn > 0 \/ cwsParentDone))
  /\ [][cwsOut' # cwsOut => (cwsCtxDone' = cwsCtxDone /\ stopC' = stopC)]_vars
  /\ [][cwsCtxDone => cwsCtxDone']_vars

\* C15 witness: the context is done after two configured signals and one
\* other signal, the parent not being cancelled.
C15_Witness ==
  /\ cwsCtxDone /\ ~cwsParentDone /\ cwsPc = "done"
  /\ cwsIn >= 2 /\ cwsOut >= 1

\* C17: http New returns a server whose handler is chosen so: no
\* WithHandler: every path is answered by the health handler with app "kit"
\* and empty version; WithHandler(h) and a health Path p that is not empty:
\* p is answered by the health handler (with the WithHealth options), every
\* other path by h; WithHandler(h) and no health path: every path by h.
C17_HandlerChoice ==
  (variant = "http" /\ opts = <<>> /\ newPc \notin {"opts", "mux"})
    => /\ (handler = "nil" \/ healthOpt.Path # <<>>) => newPc = "done"
       /\ (newPc = "done" /\ reqPath # <<>>)
            => answeredBy =
                 IF handler = "nil" THEN Answer("health", "", KitHealth)
                 ELSE IF healthOpt.Path # <<>> /\ reqPath = healthOpt.Path
                   THEN Answer("health", "", healthOpt)
                 ELSE Answer("h", handler, ZeroHealth)

C19_HealthRequestReturns ==
  [](hrPc = "wait"
       => <>( /\ hrPc = "done"
              /\ hrResult = IF \A i \in DOMAIN hrSvc : hrServer[hrSvc[i]] = "SERVING"
                              THEN "nil" ELSE "err" ))

\* C20 (as stated): when ReadInConfig has returned nil the field has the value
\* of the highest source that provides one, in the order struct default, config
\* file, environment variable, bound flag.  (A bound flag provides its value,
\* as TestConfig expects of a flag that was never set; an environment variable
\* provides a value when it is set.)
C20_PrecedenceFlagEnvFileDefault ==
  (kPc = "done" /\ kErr = "nil")
    => kField = IF kFlag.bound THEN kFlag.val
                ELSE IF kEnv.set THEN kEnv.val
                ELSE IF kFile.set THEN kFile.val
                ELSE kDefault

\* C20 (amended): when ReadInConfig has returned nil the field has the value
\* of the highest source that provides one, in the order: struct default,
\* default value of a bound flag that was not set, config file, environment
\* variable that is set and not empty, bound flag that was set.  When it has
\* returned an error (unreadable file) the field keeps its default.
C20_PrecedenceWithFlagDefault ==
  /\ (kPc = "done" /\ kErr = "nil")
       => kField = IF kFlag.bound /\ kFlag.changed THEN kFlag.val
                   ELSE IF kEnv.set /\ kEnv.val # "" THEN kEnv.val
                   ELSE IF kFile.set THEN kFile.val
                   ELSE IF kFlag.bound THEN kFlag.val
                   ELSE kDefault
  /\ (kPc = "done" /\ kErr = "err") => kField = kDefault

\* C20 witness: a bound flag that was not set, a file value and an environment
\* value: the field has the environment value.
C20_Witness ==
  /\ kPc = "done" /\ kErr = "nil"
  /\ kFlag.bound /\ ~kFlag.changed /\ kFlag.val = "flagdef"
  /\ kFile.set /\ kEnv = Val(TRUE, "env")
  /\ kField = "env"

\* C21: RequestIDHandler, for every fieldKey and every headerName (the empty
\* one included): when a request has been handed on to next its id is not
\* empty; it is the id of the request's context when there is one, else the
\* value of the header headerName when one is named and the request has it,
\* else a generated id no earlier request had, stored in the context of the
\* request handed on; the request logger has it under fieldKey (when fieldKey
\* is not empty) and the response has it as header headerName (when headerName
\* is not empty).
C21_EveryRequestHasID ==
  ridPc = "served"
    => /\ ridId # EmptyID
       /\ rCtx.set => ridId = rCtx.val
       /\ (~rCtx.set /\ headerName # "" /\ rHeader # EmptyID) => ridId = rHeader
       /\ (~rCtx.set /\ (headerName = "" \/ rHeader = EmptyID))
            => /\ ridId.src = "xid"
               /\ ridId \notin ridSeen
               /\ ridCtx = Val(TRUE, ridId)
       /\ fieldKey # "" => ridLog = Val(TRUE, ridId)
       /\ headerName # "" => wHeader = ridId

\* C22: when the chain FilterChain(f1..fn) has returned, its result is true if
\* and only if every filter answers true (so the empty chain returns true), and
\* the filters called are f1, f2, ... in the order given, up to and including
\* the first that answers false (all of them when none does).
C22_ChainIsOrderedConjunction ==
  fcPc = "done"
    => /\ fcResult = (\A i \in DOMAIN filters : filters[i])
       /\ (filters = <<>> => fcResult)
       /\ \A k \in DOMAIN fcCalled : fcCalled[k] = k
       /\ \A k \in DOMAIN fcCalled : k < Len(fcCalled) => filters[k]
       /\ Len(fcCalled) = Len(filters) \/ ~filters[Len(fcCalled)]

\* C22 witness: a chain whose second filter answers false has returned false
\* after calling the first two filters and not the third.
C22_Witness ==
  /\ fcPc = "done"
  /\ Len(filters) >= 3
  /\ filters[1] /\ ~filters[2] /\ filters[3]
  /\ fcCalled = <<1, 2>>
  /\ ~fcResult

\* C23: gRPC server: Start holds the running mutex exactly while it is in its
\* body (listen, register, spawn of Serve, Notify, the select) and Stop
\* exactly while it is in its body (GracefulStop, its wait, the return); so the
\* two bodies never run at the same time, and a method that holds the mutex is
\* not at a Lock.
C23_StartStopExclusive ==
  variant = "grpc"
    => /\ gStartPc \in {"listen", "register", "spawn", "notify", "block", "select"}
            <=> gMutex = "Start"
       /\ gStopPc \in {"graceful", "wait", "ret"} <=> gMutex = "Stop"
       /\ ~( /\ gStartPc \in {"listen", "register", "spawn", "notify", "block", "select"}
             /\ gStopPc \in {"graceful", "wait", "ret"} )
       /\ gMutex = "Start" => gStartPc # "lock"
       /\ gMutex = "Stop" => gStopPc # "lock"

\* C23 witness: Stop has been called while Start waits in its select with the
\* mutex held, and is kept at its Lock.
C23_Witness ==
  /\ variant = "grpc"
  /\ gStartPc = "select" /\ gStopPc = "lock" /\ gMutex = "Start"
  /\ gServePc = "serving"

\* C24: HTTP server, the channel errC of a call of Start: it never holds more
\* than its one slot; the serve goroutine, once ListenAndServe has returned, can
\* always take its switch (its send does not block); a value is put on errC
\* only by that one step of the goroutine, and only an error other than
\* ErrServerClosed; errC is closed exactly when the goroutine is done, by the
\* one step that follows the switch, and never again; and when the loop ended
\* with ErrServerClosed errC holds no value and a Start that read it got nil.
C24_ErrCOneShot ==
  /\ []( variant = "http"
           => /\ Len(errC) <= ErrCCap
              /\ hServePc = "returned" => ENABLED HServeSwitch
              /\ errCClosed <=> hServePc = "done"
              /\ errC # <<>> => errC = <<hServeErr>>
              /\ hServeErr = "ErrServerClosed"
                   => /\ errC = <<>>
                      /\ (hStartPc = "done" /\ hStartVia = "errC")
                           => hStartResult = "nil" )
  /\ [][ Len(errC') > Len(errC)
           => /\ hServePc = "returned" /\ hServePc' = "close"
              /\ hServeErr # "ErrServerClosed"
              /\ errC = <<>> ]_vars
  /\ [][ errCClosed' # errCClosed
           => /\ ~errCClosed
              /\ hServePc = "close" /\ hServePc' = "done" ]_vars

\* C24 witness: Start has left its select through the cancelled context, the
\* goroutine has sent its runtime error all the same and has closed errC.
C24_Witness ==
  /\ variant = "http"
  /\ hStartVia = "ctx"
  /\ errC # <<>>
  /\ errCClosed

\* C25: HealthRequest, for every list of services and every combination of
\* check outcomes (two or more failing services included): once the goroutines
\* are started, eventually every goroutine has finished (its send on errC
\* done), wg.Wait has returned and the function has returned.
C25_HealthRequestTerminates ==
  [](hrPc = "wait"
       => <>( /\ hrPc = "done"
              /\ hrErrCClosed
              /\ \A i \in DOMAIN hrTask : hrTask[i] = "done" ))

\* C26: gRPC server: once Start has registered sigC with signal.Notify, every
\* termination signal delivered makes Start return in the end, also a signal
\* delivered before Start has reached its select.
C26_NoSignalLost ==
  [](( variant = "grpc" /\ gNotified /\ (gSigLost \/ gStartVia = "sig"))
       => <>(gStartPc = "done"))

\* C27: HTTP server: in every health response written, also one handled while
\* the serve goroutine changes Running, status 200 goes with the body
\* serving=true and status 503 with the body serving=false, and the status is
\* one of the two.
C27_HealthResponseConsistent ==
  (variant = "http" /\ hReqPc = "written")
    => /\ hRespStatus \in {StatusOK, StatusServiceUnavailable}
       /\ hRespStatus = StatusOK => hRespServing
       /\ hRespStatus = StatusServiceUnavailable => ~hRespServing

C29_NewNeverPanics ==
  variant = "http"
    => /\ newPc # "panic"
       /\ newPc = "done" => SrvHandler.kind # "nil"
       /\ (opts = <<>> /\ newPc \notin {"opts", "mux"}
             /\ healthOpt.Path # <<>> /\ handler = "nil")
            => /\ newPc = "done"
               /\ reqPath = healthOpt.Path
                    => answeredBy = Answer("health", "", healthOpt)

\* C30: Migrator: whenever a method (Up, Down, Force, Version) has returned,
\* with nil or with an error, the database handle is closed, and each call has
\* closed it once; so from the second call on, whatever the sequence of
\* methods, the handle is already closed when the method is entered and while
\* it runs.
C30_EveryOperationClosesDb ==
  /\ (mPc = "idle" /\ mCalls > 0) => (dbClosed /\ dbCloses = mCalls)
  /\ (mPc # "idle" /\ mCalls > 1) => (mEntryClosed /\ dbClosed)

\* C30 witness: a first operation has returned and a second one, Version, is
\* running in the library on the closed handle.
C30_Witness ==
  /\ mCalls = 2
  /\ mPc = "body"
  /\ mOp = "Version"
  /\ mEntryClosed /\ dbClosed

====
